---------------------------- MODULE Spec2Model ----------------------------
(***************************************************************************)
(* AquaScript: the code generator (compiler/codegen.py), the bytecode      *)
(* container (serialize_bytecode / load_bytecode) and the two virtual      *)
(* machines (vm/aquavm.py, vm/optimized_aquavm.py), as one pipeline:       *)
(* an AST is compiled statement by statement, HALT is appended, the unit   *)
(* is serialized, a VM loads the bytes section by section and runs them.   *)
(* The constant pool (add_constant) and the front end (compiler/lexer.py,   *)
(* compiler/parser.py) have a specification of their own each.             *)
(***************************************************************************)
EXTENDS Integers, Sequences, FiniteSets, TLC

VARIABLES
    prog,               \* index of the source program being compiled
    gen,                \* the CodeGenerator object
    bytecode,           \* the bytes generate() returned
    phase,              \* "compile", "serialized", "loaded", "run", "load_error";
                        \* "pool" and "lex" in the specifications of their own
    vmkind,             \* "none", "aqua" (AquaVM), "opt" (OptimizedAquaVM)
    constants,          \* vm.constants
    global_vars,        \* vm.global_vars
    globals,            \* vm.globals
    functions,          \* vm.functions
    instructions,       \* vm.instructions
    classes,            \* vm.classes (OptimizedAquaVM)
    stack,              \* vm.stack
    call_stack,         \* vm.call_stack
    pc,                 \* vm.pc
    exception_stack,    \* vm.exception_stack (AquaVM)
    current_exception,  \* vm.current_exception (AquaVM)
    heap,               \* the AquaObject instances, by identity
    output,             \* the lines print wrote
    status,             \* "idle", "running", "halted", "error", "spin"
    error,              \* the exception class that ended load or run
    call,               \* the last add_constant call: its argument and result
    lexer,              \* the Lexer object
    program,            \* what Parser.parse returned or raised
    blob,               \* the bytes handed to load_bytecode
    exit_status         \* the exit status of the VM's process, once it ended

vars == <<prog, gen, bytecode, phase, vmkind, constants, global_vars, globals,
          functions, instructions, classes, stack, call_stack, pc,
          exception_stack, current_exception, heap, output, status, error,
          call, lexer, program, blob, exit_status>>

-----------------------------------------------------------------------------
(* Bounds of the model *)

\* A CALL is modelled while the call stack holds fewer frames than this (the
\* VMs keep their frames on the heap, so a runaway recursion has no limit of
\* its own).
MaxCallDepth == 3

-----------------------------------------------------------------------------
(* aquavm.OpCode: the numbers the code generator emits (codegen.py imports  *)
(* OpCode from aquavm) and AquaVM decodes.                                   *)

LOAD_CONST == 1
LOAD_VAR == 2
STORE_VAR == 3
LOAD_GLOBAL == 4
STORE_GLOBAL == 5
LOAD_LOCAL == 6
STORE_LOCAL == 7
POP == 96
DUP == 9
ADD == 16
SUB == 17
EQ == 32
NOT == 50
JUMP == 64
JUMP_IF_FALSE == 65
JUMP_IF_TRUE == 66
CALL == 80
RETURN == 81
LOAD_FUNC == 82
TYPE_CHECK == 96
BUILD_LIST == 103
SET_ATTR == 104
GET_ITER == 109
FOR_ITER == 110
LIST_APPEND == 111
GET_ATTR == 112
BUILD_DICT == 122
CREATE_CLASS == 128
CALL_METHOD == 130
TRY_BEGIN == 144
TRY_END == 145
CATCH_BEGIN == 146
CATCH_END == 147
FINALLY_BEGIN == 148
FINALLY_END == 149
THROW == 150
HALT == 255

(* optimized_aquavm.OpCode: the numbers OptimizedAquaVM's handler table is   *)
(* keyed on.                                                                 *)

Opt_LOAD_CONST == 1
Opt_STORE_VAR == 3
Opt_LOAD_GLOBAL == 4
Opt_STORE_GLOBAL == 5
Opt_LOAD_LOCAL == 6
Opt_STORE_LOCAL == 7
Opt_POP == 8
Opt_DUP == 9
Opt_EQ == 32
Opt_NOT == 50
Opt_JUMP == 64
Opt_JUMP_IF_FALSE == 65
Opt_JUMP_IF_TRUE == 66
Opt_CALL == 80
Opt_RETURN == 81
Opt_LOAD_FUNC == 82
Opt_TYPE_CHECK == 96
Opt_BUILD_LIST == 103
Opt_SET_ATTR == 104
Opt_GET_ITER == 109
Opt_FOR_ITER == 110
Opt_LIST_APPEND == 111
Opt_GET_ATTR == 112
Opt_BUILD_DICT == 122
Opt_CREATE_CLASS == 128
Opt_CALL_METHOD == 130
Opt_HALT == 255

-----------------------------------------------------------------------------
(* Python values.  Each tag has its own record shape.                        *)

None == <<>>                       \* an absent operand / Optional field
Some(x) == <<x>>

NilV == [t |-> "nil"]
BoolV(b) == [t |-> "bool", b |-> b]
IntV(n) == [t |-> "int", n |-> n]
StrV(s) == [t |-> "str", s |-> s]
ListV(l) == [t |-> "list", l |-> l]
DictV(d) == [t |-> "dict", d |-> d]      \* d: sequence of <<key, value>>
ObjV(id) == [t |-> "obj", id |-> id]     \* AquaObject, by identity
ClassV(name) == [t |-> "class", name |-> name]   \* AquaClass
ExcV(type, message) == [t |-> "exc", type |-> type, message |-> message]
IterV(obj, idx, length) == [t |-> "iter", obj |-> obj, idx |-> idx, length |-> length]

\* An insertion-ordered dict as a sequence of <<key, value>> pairs.
DictHas(d, k) == \E i \in 1..Len(d) : d[i][1] = k
DictGet(d, k) == d[CHOOSE i \in 1..Len(d) : d[i][1] = k][2]
DictSet(d, k, v) ==
    IF DictHas(d, k)
    THEN [i \in 1..Len(d) |-> IF d[i][1] = k THEN <<k, v>> ELSE d[i]]
    ELSE Append(d, <<k, v>>)
DictKeys(d) == [i \in 1..Len(d) |-> d[i][1]]

\* What iter(obj) runs over, for a list, a string or a dict (its keys): the
\* number of elements and element number index (counted from 0).
SeqLen(obj) ==
    CASE obj.t = "str" -> Len(obj.s)
      [] obj.t = "dict" -> Len(obj.d)
      [] OTHER -> Len(obj.l)
SeqItem(obj, index) ==
    CASE obj.t = "str" -> [t |-> "str", s |-> SubSeq(obj.s, index + 1, index + 1)]
      [] obj.t = "dict" -> obj.d[index + 1][1]
      [] OTHER -> obj.l[index + 1]

\* Python's ==: bool is a subclass of int, so True == 1 and False == 0.
IsNum(v) == v.t \in {"int", "bool"}
NumOf(v) == IF v.t = "bool" THEN (IF v.b THEN 1 ELSE 0) ELSE v.n
PyEq(a, b) == IF IsNum(a) /\ IsNum(b) THEN NumOf(a) = NumOf(b) ELSE a = b

\* Python truthiness.
Truthy(v) ==
    CASE v.t = "nil" -> FALSE
      [] v.t = "bool" -> v.b
      [] v.t = "int" -> v.n # 0
      [] v.t = "str" -> v.s # ""
      [] v.t = "list" -> v.l # <<>>
      [] v.t = "dict" -> v.d # <<>>
      [] OTHER -> TRUE

\* str(v) and repr(v), for what the programs throw and print, with the
\* objects of the heap h. AquaObject defines neither __str__ nor __repr__, so
\* an object prints as object.__repr__ has it, with its address. A string in
\* a list prints in quotes (none below holds a quote). Classes, dicts and
\* iterators are printed by no program.
RECURSIVE StrIn(_, _), ReprItems(_, _)
StrIn(h, v) ==
    CASE v.t = "str" -> v.s
      [] v.t = "int" -> ToString(v.n)
      [] v.t = "nil" -> "None"
      [] v.t = "bool" -> (IF v.b THEN "True" ELSE "False")
      [] v.t = "exc" -> v.message
      [] v.t = "obj" -> "<__main__.AquaObject object at " \o h[v.id].address \o ">"
      [] v.t = "list" -> "[" \o ReprItems(h, v.l) \o "]"
      [] OTHER -> "<object>"

ReprItems(h, items) ==
    IF items = <<>> THEN ""
    ELSE (IF items[1].t = "str" THEN "'" \o items[1].s \o "'" ELSE StrIn(h, items[1]))
         \o (IF Len(items) = 1 THEN "" ELSE ", " \o ReprItems(h, Tail(items)))

PyStr(v) == StrIn(heap, v)

-----------------------------------------------------------------------------
(* The AST (compiler/parser.py dataclasses), as records tagged by class.     *)

NumberLiteral(value) == [k |-> "NumberLiteral", value |-> value]
StringLiteral(value) == [k |-> "StringLiteral", value |-> value]
BooleanLiteral(value) == [k |-> "BooleanLiteral", value |-> value]
NoneLiteral == [k |-> "NoneLiteral"]
Identifier(name) == [k |-> "Identifier", name |-> name]
BinaryOperation(left, operator, right) ==
    [k |-> "BinaryOperation", left |-> left, operator |-> operator, right |-> right]
UnaryOperation(operator, operand) ==
    [k |-> "UnaryOperation", operator |-> operator, operand |-> operand]
FunctionCall(function, arguments) ==
    [k |-> "FunctionCall", function |-> function, arguments |-> arguments]
ListLiteral(elements) == [k |-> "ListLiteral", elements |-> elements]
\* DictLiteral.pairs: a list of (key, value) expressions
DictLiteral(pairs) == [k |-> "DictLiteral", pairs |-> pairs]
ListComprehension(element, variable, iterable, condition) ==
    [k |-> "ListComprehension", element |-> element, variable |-> variable,
     iterable |-> iterable, condition |-> condition]
AttributeAccess(object, attribute) ==
    [k |-> "AttributeAccess", object |-> object, attribute |-> attribute]
\* FStringLiteral.parts holds the dicts {'type': ..., 'value': ...} that
\* read_f_string wrote; TextPart is one of type 'text'.
TextPart(value) == [type |-> "text", value |-> value]
FStringLiteral(parts) == [k |-> "FStringLiteral", parts |-> parts]

ExpressionStatement(expression) == [k |-> "ExpressionStatement", expression |-> expression]
Assignment(target, value) == [k |-> "Assignment", target |-> target, value |-> value]
VarDeclaration(name, type_hint, value) ==
    [k |-> "VarDeclaration", name |-> name, type_hint |-> type_hint, value |-> value]
AttributeAssignment(object, attribute, value) ==
    [k |-> "AttributeAssignment", object |-> object, attribute |-> attribute, value |-> value]
FunctionDef(name, parameters, body) ==
    [k |-> "FunctionDef", name |-> name, parameters |-> parameters, body |-> body]
ClassDef(name, body) == [k |-> "ClassDef", name |-> name, body |-> body]
ElifClause(condition, body) == [condition |-> condition, body |-> body]
IfStatement(condition, then_body, elif_clauses, else_body) ==
    [k |-> "IfStatement", condition |-> condition, then_body |-> then_body,
     elif_clauses |-> elif_clauses, else_body |-> else_body]
ForLoop(variable, iterable, body) ==
    [k |-> "ForLoop", variable |-> variable, iterable |-> iterable, body |-> body]
WhileLoop(condition, body) == [k |-> "WhileLoop", condition |-> condition, body |-> body]
RepeatLoop(condition, body) == [k |-> "RepeatLoop", condition |-> condition, body |-> body]
CaseClause(value, body) == [value |-> value, body |-> body]
SwitchStatement(expression, cases, default_case) ==
    [k |-> "SwitchStatement", expression |-> expression, cases |-> cases,
     default_case |-> default_case]
ReturnStatement(value) == [k |-> "ReturnStatement", value |-> value]
BreakStatement == [k |-> "BreakStatement"]
ContinueStatement == [k |-> "ContinueStatement"]
CatchClause(exception_type, exception_name, body) ==
    [exception_type |-> exception_type, exception_name |-> exception_name, body |-> body]
TryStatement(try_body, catch_clauses, finally_body) ==
    [k |-> "TryStatement", try_body |-> try_body, catch_clauses |-> catch_clauses,
     finally_body |-> finally_body]
ThrowStatement(exception) == [k |-> "ThrowStatement", exception |-> exception]

-----------------------------------------------------------------------------
(* CodeGenerator (compiler/codegen.py).  A generator object is a record g;  *)
(* every method is an operator from g (and its arguments) to the new g.     *)

Instruction(opcode, operand) == [opcode |-> opcode, operand |-> operand]
Function(name, parameters, instrs, local_vars) ==
    [name |-> name, parameters |-> parameters, instructions |-> instrs,
     local_vars |-> local_vars]

CodeGenerator ==
    [constants |-> <<>>, functions |-> <<>>, global_vars |-> <<>>,
     instructions |-> <<>>, current_function |-> None,
     break_labels |-> <<>>, continue_labels |-> <<>>]

\* list.index(value) of the first entry equal (==) to value, or len(list).
ConstantIndex(cs, value) ==
    IF \E i \in 1..Len(cs) : PyEq(cs[i], value)
    THEN (CHOOSE i \in 1..Len(cs) :
             PyEq(cs[i], value) /\ \A j \in 1..(i - 1) : ~PyEq(cs[j], value)) - 1
    ELSE Len(cs)

\* A pool that appends without looking for an equal entry.
add_constant_append(g, value) == [g EXCEPT !.constants = Append(@, value)]

\* add_constant: the index it returns, and the generator it leaves.
add_constant_index(g, value) == ConstantIndex(g.constants, value)
add_constant(g, value) ==
    IF \E i \in 1..Len(g.constants) : PyEq(g.constants[i], value)
    THEN g
    ELSE [g EXCEPT !.constants = Append(@, value)]

get_current_instructions(g) ==
    IF g.current_function # None
    THEN g.current_function[1].instructions
    ELSE g.instructions

SetCurrentInstructions(g, ins) ==
    IF g.current_function # None
    THEN [g EXCEPT !.current_function[1].instructions = ins]
    ELSE [g EXCEPT !.instructions = ins]

emit(g, opcode, operand) ==
    SetCurrentInstructions(g, Append(get_current_instructions(g),
                                     Instruction(opcode, operand)))

\* instructions[pos].operand = target (pos counted from 0, as in the source)
PatchOperand(g, pos, target) ==
    SetCurrentInstructions(g,
        [get_current_instructions(g) EXCEPT ![pos + 1].operand = Some(target)])

Here(g) == Len(get_current_instructions(g))

get_or_create_global_var_index(g, name) ==
    IF DictHas(g.global_vars, name) THEN DictGet(g.global_vars, name)
    ELSE Len(g.global_vars)
get_or_create_global_var(g, name) ==
    IF DictHas(g.global_vars, name) THEN g
    ELSE [g EXCEPT !.global_vars = Append(@, <<name, Len(@)>>)]

get_or_create_local_var_index(g, name) ==
    IF DictHas(g.current_function[1].local_vars, name)
    THEN DictGet(g.current_function[1].local_vars, name)
    ELSE Len(g.current_function[1].local_vars)
get_or_create_local_var(g, name) ==
    IF DictHas(g.current_function[1].local_vars, name) THEN g
    ELSE [g EXCEPT !.current_function[1].local_vars = Append(@, <<name, Len(@)>>)]

\* "if self.current_function: STORE_LOCAL get_or_create_local_var(name)
\*  else: STORE_GLOBAL get_or_create_global_var(name)"
StoreByContext(g, name) ==
    IF g.current_function # None
    THEN emit(get_or_create_local_var(g, name), STORE_LOCAL,
              Some(get_or_create_local_var_index(g, name)))
    ELSE emit(get_or_create_global_var(g, name), STORE_GLOBAL,
              Some(get_or_create_global_var_index(g, name)))

\* opcode with the operand add_constant(value): LOAD_CONST, LOAD_FUNC, GET_ATTR,
\* CREATE_CLASS and the typed CATCH_BEGIN are emitted this way.
EmitConstant(g, opcode, value) ==
    emit(add_constant(g, value), opcode, Some(add_constant_index(g, value)))

LoadConstant(g, value) == EmitConstant(g, LOAD_CONST, value)

\* "instructions[pos].operand = len(instructions)"
PatchHere(g, pos) == PatchOperand(g, pos, Here(g))

op_map(operator) ==
    CASE operator = "==" -> EQ

RECURSIVE compile_statement(_, _), compile_expression(_, _), CompileBody(_, _),
          CompileArguments(_, _), CompileElifClauses(_, _, _),
          CompileCaseClauses(_, _, _), CompileCatchClauses(_, _),
          CompileMethods(_, _, _, _), PatchAll(_, _, _), CompileParts(_, _),
          EmitAdds(_, _), CompilePairs(_, _)

\* "for stmt in body: self.compile_statement(stmt)"
\* (Each statement is compiled before the next one is looked at: the test reads
\*  the generator, so that its evaluation is not nested in the next statement's.
\*  The loops below read it the same way.)
CompileBody(g, body) ==
    IF Here(g) >= 0 /\ body = <<>> THEN g
    ELSE CompileBody(compile_statement(g, Head(body)), Tail(body))

\* "for arg in expr.arguments: self.compile_expression(arg)"
CompileArguments(g, arguments) ==
    IF Here(g) >= 0 /\ arguments = <<>> THEN g
    ELSE CompileArguments(compile_expression(g, Head(arguments)), Tail(arguments))

\* "for key, value in expr.pairs: compile_expression(key); compile_expression(value)"
CompilePairs(g, pairs) ==
    IF Here(g) >= 0 /\ pairs = <<>> THEN g
    ELSE CompilePairs(compile_expression(compile_expression(g, Head(pairs)[1]),
                                         Head(pairs)[2]),
                      Tail(pairs))

\* "for pos in positions: instructions[pos].operand = target"
PatchAll(g, positions, target) ==
    IF Here(g) >= 0 /\ positions = <<>> THEN g
    ELSE PatchAll(PatchOperand(g, Head(positions), target), Tail(positions), target)

PatchAllHere(g, positions) == PatchAll(g, positions, Here(g))

\* The callee of a call on a plain identifier.
CompileCallee(g, name) ==
    IF g.current_function # None /\ DictHas(g.current_function[1].local_vars, name)
    THEN emit(g, LOAD_LOCAL, Some(DictGet(g.current_function[1].local_vars, name)))
    ELSE IF DictHas(g.global_vars, name)
    THEN emit(g, LOAD_GLOBAL, Some(DictGet(g.global_vars, name)))
    ELSE LoadConstant(g, StrV(name))

\* compile_list_comprehension from the element on; g4 is the generator after the
\* condition's JUMP_IF_FALSE, whose index is skip_jump_index = len - 1.
comprehension_filtered(g4, expr) ==
    PatchHere(emit(compile_expression(g4, expr.element), LIST_APPEND, None),
              Here(g4) - 1)

\* g3 is the generator after the loop variable is stored.
comprehension_element(g3, expr) ==
    IF expr.condition # None
    THEN comprehension_filtered(
             emit(compile_expression(g3, expr.condition[1]), JUMP_IF_FALSE, Some(0)),
             expr)
    ELSE emit(compile_expression(g3, expr.element), LIST_APPEND, None)

\* g2 is the generator after GET_ITER: loop_start = for_iter_index = len.
comprehension_loop(g2, expr) ==
    PatchHere(emit(comprehension_element(
                       StoreByContext(emit(g2, FOR_ITER, Some(0)), expr.variable),
                       expr),
                   JUMP, Some(Here(g2))),
              Here(g2))

compile_list_comprehension(g, expr) ==
    comprehension_loop(
        emit(compile_expression(emit(g, BUILD_LIST, Some(0)), expr.iterable),
             GET_ITER, None),
        expr)

RECURSIVE BitOr(_, _), BitAnd(_, _)
\* Python's a | b and a & b on integers that are not negative.
BitOr(a, b) ==
    IF a = 0 THEN b
    ELSE IF b = 0 THEN a
    ELSE (IF a % 2 = 1 \/ b % 2 = 1 THEN 1 ELSE 0) + 2 * BitOr(a \div 2, b \div 2)
BitAnd(a, b) ==
    IF a = 0 \/ b = 0 THEN 0
    ELSE (IF a % 2 = 1 /\ b % 2 = 1 THEN 1 ELSE 0) + 2 * BitAnd(a \div 2, b \div 2)

\* "(len(expr.arguments) << 16) | method_name_index"
PackCallMethod(arg_count, method_name_index) ==
    BitOr(arg_count * 65536, method_name_index)

\* An operand that adds the two fields where the source has "|".
PackCallMethodAdd(arg_count, method_name_index) ==
    arg_count * 65536 + method_name_index

\* "method_name_index = add_constant(attribute);
\*  operand = (arg_count << 16) | method_name_index; emit(CALL_METHOD, operand)"
EmitCallMethod(g, attribute, arg_count) ==
    emit(add_constant(g, StrV(attribute)), CALL_METHOD,
         Some(PackCallMethod(arg_count, add_constant_index(g, StrV(attribute)))))

\* "for part in expr.parts: if part['type'] == 'text': LOAD_CONST value".
\* (A part of type 'expression' is handed to Parser.parse_expression, which
\* raises AttributeError on TokenType.LAMBDA: no code is generated for it.)
CompileParts(g, parts) ==
    IF Here(g) >= 0 /\ parts = <<>> THEN g
    ELSE CASE Head(parts).type = "text" ->
                CompileParts(LoadConstant(g, StrV(Head(parts).value)), Tail(parts))

\* "for i in range(len(expr.parts) - 1): emit(ADD)"
EmitAdds(g, n) == IF Here(g) >= 0 /\ n <= 0 THEN g ELSE EmitAdds(emit(g, ADD, None), n - 1)

\* "if len(expr.parts) > 1:" one ADD for every part after the first
compile_f_string(g, expr) ==
    IF Len(expr.parts) > 1
    THEN EmitAdds(CompileParts(g, expr.parts), Len(expr.parts) - 1)
    ELSE CompileParts(g, expr.parts)

compile_expression(g, expr) ==
    CASE expr.k = "NumberLiteral" -> LoadConstant(g, IntV(expr.value))
      [] expr.k = "StringLiteral" -> LoadConstant(g, StrV(expr.value))
      [] expr.k = "FStringLiteral" -> compile_f_string(g, expr)
      [] expr.k = "BooleanLiteral" -> LoadConstant(g, BoolV(expr.value))
      [] expr.k = "NoneLiteral" -> LoadConstant(g, NilV)
      [] expr.k = "Identifier" ->
            IF g.current_function # None
               /\ DictHas(g.current_function[1].local_vars, expr.name)
            THEN emit(g, LOAD_LOCAL,
                      Some(DictGet(g.current_function[1].local_vars, expr.name)))
            ELSE emit(get_or_create_global_var(g, expr.name), LOAD_GLOBAL,
                      Some(get_or_create_global_var_index(g, expr.name)))
      [] expr.k = "BinaryOperation" ->
            emit(compile_expression(compile_expression(g, expr.left), expr.right),
                 op_map(expr.operator), None)
      [] expr.k = "UnaryOperation" ->
            (CASE expr.operator = "not" ->
                    emit(compile_expression(g, expr.operand), NOT, None)
               [] expr.operator = "-" ->
                    emit(compile_expression(LoadConstant(g, IntV(0)), expr.operand),
                         SUB, None)
               [] expr.operator = "+" -> compile_expression(g, expr.operand))
      [] expr.k = "FunctionCall" ->
            IF expr.function.k = "AttributeAccess"
            THEN EmitCallMethod(
                     CompileArguments(compile_expression(g, expr.function.object),
                                      expr.arguments),
                     expr.function.attribute, Len(expr.arguments))
            ELSE IF expr.function.k = "Identifier"
            THEN emit(CompileArguments(CompileCallee(g, expr.function.name),
                                       expr.arguments),
                      CALL, Some(Len(expr.arguments)))
            ELSE emit(CompileArguments(compile_expression(g, expr.function),
                                       expr.arguments),
                      CALL, Some(Len(expr.arguments)))
      [] expr.k = "ListLiteral" ->
            emit(CompileArguments(g, expr.elements), BUILD_LIST, Some(Len(expr.elements)))
      [] expr.k = "DictLiteral" ->
            emit(CompilePairs(g, expr.pairs), BUILD_DICT, Some(Len(expr.pairs)))
      [] expr.k = "ListComprehension" -> compile_list_comprehension(g, expr)
      [] expr.k = "AttributeAccess" ->
            EmitConstant(compile_expression(g, expr.object), GET_ATTR,
                         StrV(expr.attribute))

\* Function(name, parameters) with the parameters as its first local variables.
NewFunction(name, parameters) ==
    Function(name, parameters, <<>>,
             [i \in 1..Len(parameters) |-> <<parameters[i], i - 1>>])

\* "if not instructions or instructions[-1].opcode != RETURN:
\*      LOAD_CONST None; RETURN"
EnsureReturn(g) ==
    IF get_current_instructions(g) = <<>>
       \/ get_current_instructions(g)[Here(g)].opcode # RETURN
    THEN emit(LoadConstant(g, NilV), RETURN, None)
    ELSE g

\* "self.functions[name] = function; self.current_function = old_function"
StoreFunction(g, name, old_function) ==
    [g EXCEPT !.functions = DictSet(@, name, g.current_function[1]),
              !.current_function = old_function]

\* The body of a function or method compiled into a new current function.
CompileFunction(g, name, parameters, body) ==
    StoreFunction(
        EnsureReturn(
            CompileBody([g EXCEPT !.current_function =
                                      Some(NewFunction(name, parameters))],
                        body)),
        name, g.current_function)

compile_function_def(g, func_def) ==
    StoreByContext(
        EmitConstant(CompileFunction(g, func_def.name, func_def.parameters,
                                     func_def.body),
                     LOAD_FUNC, StrV(func_def.name)),
        func_def.name)

\* The loop of compile_class_def over the class body; methods is class_methods.
CompileMethods(g, class_name, body, methods) ==
    IF Here(g) >= 0 /\ body = <<>> THEN [g |-> g, class_methods |-> methods]
    ELSE IF Head(body).k # "FunctionDef"
    THEN CompileMethods(g, class_name, Tail(body), methods)
    ELSE CompileMethods(
             CompileFunction(g, class_name \o "." \o Head(body).name,
                             Head(body).parameters, Head(body).body),
             class_name, Tail(body),
             DictSet(methods, Head(body).name,
                     StrV(class_name \o "." \o Head(body).name)))

\* compile_class_def after the methods: r is the generator and class_methods.
class_def_create(r, name) ==
    StoreByContext(
        EmitConstant(LoadConstant(r.g, DictV(r.class_methods)), CREATE_CLASS,
                     StrV(name)),
        name)

compile_class_def(g, class_def) ==
    class_def_create(CompileMethods(g, class_def.name, class_def.body, <<>>),
                     class_def.name)

compile_repeat_loop(g, repeat_stmt) ==
    emit(compile_expression(CompileBody(g, repeat_stmt.body), repeat_stmt.condition),
         JUMP_IF_TRUE, Some(Here(g)))

\* One case after its body: g2 is the generator there, end_label = len.
case_end(g2, next_case_label) ==
    [g |-> PatchHere(emit(g2, JUMP, Some(-1)), next_case_label),
     end_label |-> Here(g2)]

\* One case after its comparison: g1 is the generator there, next_case_label = len.
case_body(g1, case) ==
    case_end(CompileBody(emit(g1, JUMP_IF_FALSE, Some(-1)), case.body), Here(g1))

case_next(r, cases, end_labels) ==
    CompileCaseClauses(r.g, cases, Append(end_labels, r.end_label))

\* The first loop of compile_switch_statement (the cases that have a value).
CompileCaseClauses(g, cases, end_labels) ==
    IF Here(g) >= 0 /\ cases = <<>> THEN [g |-> g, end_labels |-> end_labels]
    ELSE IF Head(cases).value = None
    THEN CompileCaseClauses(g, Tail(cases), end_labels)
    ELSE case_next(
             case_body(emit(compile_expression(emit(g, DUP, None),
                                               Head(cases).value[1]),
                            EQ, None),
                       Head(cases)),
             Tail(cases), end_labels)

\* "if default_case: for stmt in default_case.body: compile_statement(stmt)"
switch_default(g, defaults) ==
    IF defaults = <<>> THEN g ELSE CompileBody(g, defaults[1].body)

\* compile_switch_statement after the cases: r is the generator and end_labels.
switch_end(r, switch_stmt) ==
    PatchAllHere(
        emit(switch_default(r.g, SelectSeq(switch_stmt.cases,
                                           LAMBDA c : c.value = None)),
             POP, None),
        r.end_labels)

compile_switch_statement(g, switch_stmt) ==
    switch_end(CompileCaseClauses(compile_expression(g, switch_stmt.expression),
                                  switch_stmt.cases, <<>>),
               switch_stmt)

\* One elif after its body's JUMP: g2 is the generator, elif_end_jump = len - 1.
elif_end(g2, elif_false_jump) ==
    [g |-> PatchHere(g2, elif_false_jump), end_jump |-> Here(g2) - 1]

\* One elif after its condition's JUMP_IF_FALSE: elif_false_jump = len - 1.
elif_body(g1, clause) ==
    elif_end(emit(CompileBody(g1, clause.body), JUMP, Some(0)), Here(g1) - 1)

elif_next(r, clauses, end_jumps) ==
    CompileElifClauses(r.g, clauses, Append(end_jumps, r.end_jump))

\* The elif loop of compile_if_statement.
CompileElifClauses(g, clauses, end_jumps) ==
    IF Here(g) >= 0 /\ clauses = <<>> THEN [g |-> g, end_jumps |-> end_jumps]
    ELSE elif_next(
             elif_body(emit(compile_expression(g, Head(clauses).condition),
                            JUMP_IF_FALSE, Some(0)),
                       Head(clauses)),
             Tail(clauses), end_jumps)

\* compile_if_statement after the elif clauses: r is the generator and end_jumps.
if_end(r, if_stmt) ==
    PatchAllHere(CompileBody(r.g, if_stmt.else_body), r.end_jumps)

\* "if if_stmt.elif_clauses or if_stmt.else_body"
if_has_more(if_stmt) == if_stmt.elif_clauses # <<>> \/ if_stmt.else_body # <<>>

\* g3 is the generator after the then-body and its JUMP, if there is one.
if_else(g3, first_false_jump, if_stmt) ==
    if_end(CompileElifClauses(PatchHere(g3, first_false_jump),
                              if_stmt.elif_clauses,
                              IF if_has_more(if_stmt) THEN <<Here(g3) - 1>> ELSE <<>>),
           if_stmt)

\* g2 is the generator after the then-body.
if_then_jump(g2, if_stmt) ==
    IF if_has_more(if_stmt) THEN emit(g2, JUMP, Some(0)) ELSE g2

\* g1 is the generator after the condition's JUMP_IF_FALSE (first_false_jump).
if_then(g1, if_stmt) ==
    if_else(if_then_jump(CompileBody(g1, if_stmt.then_body), if_stmt),
            Here(g1) - 1, if_stmt)

\* compile_if_statement with the jump of the first condition inverted.
compile_if_statement_inverted(g, if_stmt) ==
    if_then(emit(compile_expression(g, if_stmt.condition), JUMP_IF_TRUE, Some(0)),
            if_stmt)

compile_if_statement(g, if_stmt) ==
    if_then(emit(compile_expression(g, if_stmt.condition), JUMP_IF_FALSE, Some(0)),
            if_stmt)

\* "self.break_labels = old_break_labels; self.continue_labels = old_continue_labels"
RestoreLabels(g, old) ==
    [g EXCEPT !.break_labels = old.break_labels,
              !.continue_labels = old.continue_labels]

\* g1 is the generator after the condition's JUMP_IF_FALSE: loop_end = len - 1.
while_body(g1, loop_start, while_stmt) ==
    PatchHere(emit(CompileBody([g1 EXCEPT !.break_labels = <<Here(g1) - 1>>,
                                          !.continue_labels = <<loop_start>>],
                               while_stmt.body),
                   JUMP, Some(loop_start)),
              Here(g1) - 1)

compile_while_loop(g, while_stmt) ==
    RestoreLabels(
        while_body(emit(compile_expression(g, while_stmt.condition),
                        JUMP_IF_FALSE, Some(0)),
                   Here(g), while_stmt),
        g)

\* "for label in labels: if isinstance(label, int) and label < len(instructions):
\*      instructions[label].operand = target"
PatchLabels(g, labels, target) ==
    PatchAll(g, SelectSeq(labels, LAMBDA label : label < Here(g)), target)

\* g6 is the generator after the loop's JUMP: loop_end = len.
for_exit(g6, for_iter_index) ==
    PatchLabels(PatchHere(g6, for_iter_index), g6.break_labels, Here(g6))

\* g4 is the generator after the body: continue_point = len.
for_continue(g4, loop_start) ==
    emit(PatchLabels(g4, g4.continue_labels, Here(g4)), JUMP, Some(loop_start))

\* g1 is the generator after GET_ITER: loop_start = for_iter_index = len.
for_body(g1, for_stmt) ==
    for_exit(
        for_continue(
            CompileBody([StoreByContext(emit(g1, FOR_ITER, Some(0)),
                                        for_stmt.variable)
                            EXCEPT !.break_labels = <<>>, !.continue_labels = <<>>],
                        for_stmt.body),
            Here(g1)),
        Here(g1))

compile_for_loop(g, for_stmt) ==
    RestoreLabels(
        for_body(emit(compile_expression(g, for_stmt.iterable), GET_ITER, None),
                 for_stmt),
        g)

\* "if catch_clause.exception_type: CATCH_BEGIN add_constant(type)
\*  else: CATCH_BEGIN"
catch_begin(g, catch_clause) ==
    IF catch_clause.exception_type # None
    THEN EmitConstant(g, CATCH_BEGIN, StrV(catch_clause.exception_type[1]))
    ELSE emit(g, CATCH_BEGIN, None)

\* "if catch_clause.exception_name: store it  else: POP"
catch_bind(g, catch_clause) ==
    IF catch_clause.exception_name # None
    THEN StoreByContext(g, catch_clause.exception_name[1])
    ELSE emit(g, POP, None)

compile_catch_clause(g, catch_clause) ==
    emit(CompileBody(catch_bind(catch_begin(g, catch_clause), catch_clause),
                     catch_clause.body),
         CATCH_END, None)

\* "for catch_clause in try_stmt.catch_clauses: self.compile_catch_clause(...)"
CompileCatchClauses(g, clauses) ==
    IF Here(g) >= 0 /\ clauses = <<>> THEN g
    ELSE CompileCatchClauses(compile_catch_clause(g, Head(clauses)), Tail(clauses))

\* "if try_stmt.finally_body: FINALLY_BEGIN; body; FINALLY_END"
try_finally(g, try_stmt) ==
    IF try_stmt.finally_body # <<>>
    THEN emit(CompileBody(emit(g, FINALLY_BEGIN, None), try_stmt.finally_body),
              FINALLY_END, None)
    ELSE g

compile_try_statement(g, try_stmt) ==
    try_finally(
        CompileCatchClauses(
            emit(CompileBody(emit(g, TRY_BEGIN, None), try_stmt.try_body),
                 TRY_END, None),
            try_stmt.catch_clauses),
        try_stmt)

compile_throw_statement(g, throw_stmt) ==
    emit(compile_expression(g, throw_stmt.exception), THROW, None)

\* The default of a declaration without a value, by its type hint (the hints
\* int, str and bool, and any hint that has no default of its own).
default_value(type_hint) ==
    CASE type_hint = "int" -> IntV(0)
      [] type_hint = "str" -> StrV("")
      [] type_hint = "bool" -> BoolV(FALSE)
      [] OTHER -> NilV

compile_var_declaration(g, var_decl) ==
    StoreByContext(IF var_decl.value # None
                   THEN compile_expression(g, var_decl.value[1])
                   ELSE LoadConstant(g, default_value(var_decl.type_hint)),
                   var_decl.name)

\* The store of an Assignment; g is the generator after the value is compiled.
assign_target(g, target) ==
    IF g.current_function # None
    THEN IF DictHas(g.global_vars, target)
         THEN emit(g, STORE_GLOBAL, Some(DictGet(g.global_vars, target)))
         ELSE emit(get_or_create_local_var(g, target), STORE_LOCAL,
                   Some(get_or_create_local_var_index(g, target)))
    ELSE emit(get_or_create_global_var(g, target), STORE_GLOBAL,
              Some(get_or_create_global_var_index(g, target)))

compile_statement(g, stmt) ==
    CASE stmt.k = "ExpressionStatement" ->
            emit(compile_expression(g, stmt.expression), POP, None)
      [] stmt.k = "Assignment" ->
            assign_target(compile_expression(g, stmt.value), stmt.target)
      [] stmt.k = "AttributeAssignment" ->
            emit(LoadConstant(compile_expression(compile_expression(g, stmt.object),
                                                 stmt.value),
                              StrV(stmt.attribute)),
                 SET_ATTR, None)
      [] stmt.k = "FunctionDef" -> compile_function_def(g, stmt)
      [] stmt.k = "IfStatement" -> compile_if_statement(g, stmt)
      [] stmt.k = "ForLoop" -> compile_for_loop(g, stmt)
      [] stmt.k = "WhileLoop" -> compile_while_loop(g, stmt)
      [] stmt.k = "ReturnStatement" ->
            emit(IF stmt.value # None THEN compile_expression(g, stmt.value[1])
                 ELSE LoadConstant(g, NilV),
                 RETURN, None)
      [] stmt.k = "BreakStatement" ->
            IF g.break_labels # <<>> THEN emit(g, JUMP, Some(-1)) ELSE g
      [] stmt.k = "ContinueStatement" ->
            IF g.continue_labels # <<>> THEN emit(g, JUMP, Some(-1)) ELSE g
      [] stmt.k = "VarDeclaration" -> compile_var_declaration(g, stmt)
      [] stmt.k = "ClassDef" -> compile_class_def(g, stmt)
      [] stmt.k = "RepeatLoop" -> compile_repeat_loop(g, stmt)
      [] stmt.k = "SwitchStatement" -> compile_switch_statement(g, stmt)
      [] stmt.k = "TryStatement" -> compile_try_statement(g, stmt)
      [] stmt.k = "ThrowStatement" -> compile_throw_statement(g, stmt)

-----------------------------------------------------------------------------
(* json.dumps / json.loads, str.encode / bytes.decode and struct.pack /      *)
(* struct.unpack, as serialize_bytecode and load_bytecode use them.  A text  *)
(* is a string, a bytes object a sequence of numbers 0..255.                 *)

Ch(s, i) == SubSeq(s, i, i)

\* The printable ASCII characters: codes 32..95, and codes 97..126.
AsciiLow ==
    " !\"#$%&'()*+,-./0123456789:;<=>?@ABCDEFGHIJKLMNOPQRSTUVWXYZ[\\]^_"
AsciiHigh == "abcdefghijklmnopqrstuvwxyz{|}~"

\* ord and chr: AsciiLow starts at code 32, AsciiHigh at code 97.
Ord(c) ==
    IF \E i \in 1..Len(AsciiLow) : Ch(AsciiLow, i) = c
    THEN 31 + (CHOOSE i \in 1..Len(AsciiLow) : Ch(AsciiLow, i) = c)
    ELSE 96 + (CHOOSE i \in 1..Len(AsciiHigh) : Ch(AsciiHigh, i) = c)
Chr(n) ==
    IF n <= 96 THEN Ch(AsciiLow, n - 31)
    ELSE Ch(AsciiHigh, n - 96)

\* text.encode('utf-8') (ASCII text: json.dumps escapes everything else)
encode(text) == [i \in 1..Len(text) |-> Ord(Ch(text, i))]

RECURSIVE decode(_)
\* data.decode('utf-8')
decode(data) ==
    IF data = <<>> THEN ""
    ELSE IF Len(data) = 1 THEN Chr(data[1])
    ELSE decode(SubSeq(data, 1, Len(data) \div 2))
         \o decode(SubSeq(data, Len(data) \div 2 + 1, Len(data)))

\* struct.pack('<H', n) and struct.pack('<I', n): little-endian
pack_H(n) == <<n % 256, (n \div 256) % 256>>
pack_I(n) == <<n % 256, (n \div 256) % 256, (n \div 65536) % 256,
               (n \div 16777216) % 256>>
unpack_H(b) == b[1] + 256 * b[2]
unpack_I(b) == b[1] + 256 * b[2] + 65536 * b[3] + 16777216 * b[4]

\* Python's bytecode[a:b]: cut off at the end of the data
Slice(b, from, to) ==
    SubSeq(b, from + 1, IF to > Len(b) THEN Len(b) ELSE to)

RECURSIVE EscapeString(_), dumps(_), DumpsItems(_), DumpsPairs(_)

\* The escapes json.dumps writes for a quote, a backslash and the control
\* characters of the texts.
EscapeString(s) ==
    IF s = "" THEN ""
    ELSE (CASE Ch(s, 1) = "\"" -> "\\\""
            [] Ch(s, 1) = "\\" -> "\\\\"
            [] Ch(s, 1) = "\n" -> "\\n"
            [] Ch(s, 1) = "\t" -> "\\t"
            [] Ch(s, 1) = "\r" -> "\\r"
            [] OTHER -> Ch(s, 1)) \o EscapeString(SubSeq(s, 2, Len(s)))

\* The items with ", " between them (the list is halved to keep the evaluation
\* shallow).
DumpsItems(l) ==
    IF l = <<>> THEN ""
    ELSE IF Len(l) = 1 THEN dumps(l[1])
    ELSE DumpsItems(SubSeq(l, 1, Len(l) \div 2)) \o ", "
         \o DumpsItems(SubSeq(l, Len(l) \div 2 + 1, Len(l)))

DumpsPairs(d) ==
    IF d = <<>> THEN ""
    ELSE "\"" \o EscapeString(Head(d)[1]) \o "\": " \o dumps(Head(d)[2])
         \o (IF Len(d) > 1 THEN ", " ELSE "") \o DumpsPairs(Tail(d))

\* json.dumps(v), with the default separators
dumps(v) ==
    CASE v.t = "nil" -> "null"
      [] v.t = "bool" -> (IF v.b THEN "true" ELSE "false")
      [] v.t = "int" -> ToString(v.n)
      [] v.t = "str" -> "\"" \o EscapeString(v.s) \o "\""
      [] v.t = "list" -> "[" \o DumpsItems(v.l) \o "]"
      [] v.t = "dict" -> "{" \o DumpsPairs(v.d) \o "}"

IsDigit(c) == \E d \in 0..9 : ToString(d) = c
DigitValue(c) == CHOOSE d \in 0..9 : ToString(d) = c

RECURSIVE SkipWhitespace(_, _), ParseDigits(_, _, _), ParseString(_, _, _),
          ParseValue(_, _), ParseItems(_, _, _, _), ParsePairs(_, _, _),
          ParseItem(_, _), ParseSteps(_, _, _)

SkipWhitespace(s, i) ==
    IF i <= Len(s) /\ Ch(s, i) = " " THEN SkipWhitespace(s, i + 1) ELSE i

ParseDigits(s, i, acc) ==
    IF i <= Len(s) /\ IsDigit(Ch(s, i))
    THEN ParseDigits(s, i + 1, 10 * acc + DigitValue(Ch(s, i)))
    ELSE [v |-> acc, i |-> i]

\* The characters of a string literal up to its closing quote.
ParseString(s, i, acc) ==
    CASE Ch(s, i) = "\"" -> [v |-> acc, i |-> i + 1]
      [] Ch(s, i) = "\\" -> ParseString(s, i + 2, acc \o Ch(s, i + 1))
      [] OTHER -> ParseString(s, i + 1, acc \o Ch(s, i))

\* One step in an array, after "[" or after an item: the closing bracket, a
\* comma, or the next item.
ParseItem(s, i) ==
    LET j == SkipWhitespace(s, i)
    IN CASE Ch(s, j) = "]" -> [v |-> <<>>, i |-> j + 1, closed |-> TRUE]
         [] Ch(s, j) = "," -> [v |-> <<>>, i |-> j + 1, closed |-> FALSE]
         [] OTHER -> LET r == ParseValue(s, j)
                     IN [v |-> <<r.v>>, i |-> r.i, closed |-> FALSE]

\* At most n steps in an array from i (the steps are halved to keep the
\* evaluation shallow): the items read, where it stopped, and whether the
\* array was closed.
ParseSteps(s, i, n) ==
    IF n <= 1 THEN ParseItem(s, i)
    ELSE LET a == ParseSteps(s, i, n \div 2)
         IN IF a.closed THEN a
            ELSE LET b == ParseSteps(s, a.i, n - n \div 2)
                 IN [v |-> a.v \o b.v, i |-> b.i, closed |-> b.closed]

\* The items of an array, after "[" or after the items acc: n steps, then twice
\* as many, until the array is closed.
ParseItems(s, i, acc, n) ==
    LET r == ParseSteps(s, i, n)
    IN IF r.closed THEN [v |-> ListV(acc \o r.v), i |-> r.i]
       ELSE ParseItems(s, r.i, acc \o r.v, 2 * n)

\* The members of an object, after "{" or after a member.  A repeated key
\* keeps its place and takes the last value, as a Python dict does.
ParsePairs(s, i, acc) ==
    LET j == SkipWhitespace(s, i)
    IN CASE Ch(s, j) = "}" -> [v |-> DictV(acc), i |-> j + 1]
         [] Ch(s, j) = "," -> ParsePairs(s, j + 1, acc)
         [] OTHER -> LET key == ParseString(s, j + 1, "")
                         colon == SkipWhitespace(s, key.i)
                         r == ParseValue(s, SkipWhitespace(s, colon + 1))
                     IN ParsePairs(s, r.i, DictSet(acc, key.v, r.v))

ParseValue(s, i) ==
    CASE Ch(s, i) = "n" -> [v |-> NilV, i |-> i + 4]
      [] Ch(s, i) = "t" -> [v |-> BoolV(TRUE), i |-> i + 4]
      [] Ch(s, i) = "f" -> [v |-> BoolV(FALSE), i |-> i + 5]
      [] Ch(s, i) = "\"" -> LET r == ParseString(s, i + 1, "")
                            IN [v |-> StrV(r.v), i |-> r.i]
      [] Ch(s, i) = "[" -> ParseItems(s, i + 1, <<>>, 1)
      [] Ch(s, i) = "{" -> ParsePairs(s, i + 1, <<>>)
      [] Ch(s, i) = "-" -> LET r == ParseDigits(s, i + 1, 0)
                           IN [v |-> IntV(0 - r.v), i |-> r.i]
      [] OTHER -> LET r == ParseDigits(s, i, 0)
                  IN [v |-> IntV(r.v), i |-> r.i]

\* json.loads(text)
loads(text) == ParseValue(text, SkipWhitespace(text, 1)).v

-----------------------------------------------------------------------------
(* CodeGenerator.serialize_bytecode                                          *)

\* The operand as "inst.operand or 0" would write it: a serializer with this
\* fault turns every missing operand into 0.
OperandOrZero(operand) == IF operand = None THEN IntV(0) ELSE IntV(operand[1])

\* An operand as a JSON value and back: None is null.
OperandValue(operand) == IF operand = None THEN NilV ELSE IntV(operand[1])
ValueOperand(v) == IF v.t = "nil" THEN None ELSE Some(v.n)

\* "[(inst.opcode.value, inst.operand) for inst in instrs]"
InstructionTuples(instrs) ==
    ListV([i \in 1..Len(instrs) |->
              ListV(<<IntV(instrs[i].opcode), OperandValue(instrs[i].operand)>>)])

\* A dict name -> index as the JSON object json.dumps writes for it.
IndexDictValue(d) == DictV([i \in 1..Len(d) |-> <<d[i][1], IntV(d[i][2])>>])

\* functions_data of serialize_bytecode
functions_data(fs) ==
    DictV([i \in 1..Len(fs) |->
        <<fs[i][1],
          DictV(<< <<"parameters",
                     ListV([j \in 1..Len(fs[i][2].parameters) |->
                               StrV(fs[i][2].parameters[j])])>>,
                   <<"local_vars", IndexDictValue(fs[i][2].local_vars)>>,
                   <<"instructions", InstructionTuples(fs[i][2].instructions)>> >>)>>])

header == <<65, 81, 85, 65>>       \* b'AQUA'

constants_data(g) == encode(dumps(ListV(g.constants)))
globals_data(g) == encode(dumps(IndexDictValue(g.global_vars)))
functions_bytes(g) == encode(dumps(functions_data(g.functions)))
main_data(g) == encode(dumps(InstructionTuples(g.instructions)))

serialize_bytecode(g) ==
    header \o pack_H(1)
    \o pack_I(Len(constants_data(g))) \o constants_data(g)
    \o pack_I(Len(globals_data(g))) \o globals_data(g)
    \o pack_I(Len(functions_bytes(g))) \o functions_bytes(g)
    \o pack_I(Len(main_data(g))) \o main_data(g)

-----------------------------------------------------------------------------
(* The source programs the pipeline is run on, as the ASTs the parser       *)
(* builds for them.                                                          *)

Id(name) == Identifier(name)
Num(n) == NumberLiteral(n)
Str(text) == StringLiteral(text)
CallName(name, arguments) == FunctionCall(Identifier(name), arguments)
CallMethod(object, name, arguments) ==
    FunctionCall(AttributeAccess(object, name), arguments)
Return(e) == ReturnStatement(Some(e))
CatchAll(name, body) == CatchClause(None, Some(name), body)
CatchType(type, name, body) == CatchClause(Some(type), Some(name), body)

Programs == <<
    \* 1: try { throw "boom" } catch e { x = 1 }
    << TryStatement(<<ThrowStatement(Str("boom"))>>,
                    <<CatchAll("e", <<Assignment("x", Num(1))>>)>>, <<>>) >>,
    \* 2: func f() { try { throw "a" } catch e { return 1 } return 2 }  r = f()
    << FunctionDef("f", <<>>,
         << TryStatement(<<ThrowStatement(Str("a"))>>,
                         <<CatchAll("e", <<Return(Num(1))>>)>>, <<>>),
            Return(Num(2)) >>),
       Assignment("r", CallName("f", <<>>)) >>,
    \* 3: try { try { x = 1 } catch e { y = 1 }  throw "b" } catch e2 { z = 1 }
    << TryStatement(
         << TryStatement(<<Assignment("x", Num(1))>>,
                         <<CatchAll("e", <<Assignment("y", Num(1))>>)>>, <<>>),
            ThrowStatement(Str("b")) >>,
         <<CatchAll("e2", <<Assignment("z", Num(1))>>)>>, <<>>) >>,
    \* 4: func g() { throw "x"  w = 1 }  try { g() } catch e { z = 1 }
    << FunctionDef("g", <<>>, <<ThrowStatement(Str("x")), Assignment("w", Num(1))>>),
       TryStatement(<<ExpressionStatement(CallName("g", <<>>))>>,
                    <<CatchAll("e", <<Assignment("z", Num(1))>>)>>, <<>>) >>,
    \* 5: try { throw "x" } catch TypeError as e { a = 1 }  b = 2
    << TryStatement(<<ThrowStatement(Str("x"))>>,
                    <<CatchType("TypeError", "e", <<Assignment("a", Num(1))>>)>>, <<>>),
       Assignment("b", Num(2)) >>,
    \* 6: try { throw "x" } catch TypeError as e { a = 1 } finally { c = 1 }
    << TryStatement(<<ThrowStatement(Str("x"))>>,
                    <<CatchType("TypeError", "e", <<Assignment("a", Num(1))>>)>>,
                    <<Assignment("c", Num(1))>>) >>,
    \* 7: throw "x"
    << ThrowStatement(Str("x")) >>,
    \* 8: func add(a, b) { t = a  return b }  r = add(1, 2)
    << FunctionDef("add", <<"a", "b">>, <<Assignment("t", Id("a")), Return(Id("b"))>>),
       Assignment("r", CallName("add", <<Num(1), Num(2)>>)) >>,
    \* 9: func one(a) { return a }  r = one(1, 2)
    << FunctionDef("one", <<"a">>, <<Return(Id("a"))>>),
       Assignment("r", CallName("one", <<Num(1), Num(2)>>)) >>,
    \* 10: func h(xs) { for x in xs { return x } return 0 }  r = h([1, 2])
    << FunctionDef("h", <<"xs">>,
         << ForLoop("x", Id("xs"), <<Return(Id("x"))>>), Return(Num(0)) >>),
       Assignment("r", CallName("h", <<ListLiteral(<<Num(1), Num(2)>>)>>)) >>,
    \* 11: class C { func __init__(self, v) { self.v = v }
    \*               func get(self) { return self.v } }
    \*     c = C(7)  r = c.get()
    << ClassDef("C",
         << FunctionDef("__init__", <<"self", "v">>,
              <<AttributeAssignment(Id("self"), "v", Id("v"))>>),
            FunctionDef("get", <<"self">>, <<Return(AttributeAccess(Id("self"), "v"))>>) >>),
       Assignment("c", CallName("C", <<Num(7)>>)),
       Assignment("r", CallMethod(Id("c"), "get", <<>>)) >>,
    \* 12: class D { func m(self) { return 1 } }  d = D()  e = D(1)
    << ClassDef("D", <<FunctionDef("m", <<"self">>, <<Return(Num(1))>>)>>),
       Assignment("d", CallName("D", <<>>)),
       Assignment("e", CallName("D", <<Num(1)>>)) >>,
    \* 13: class P { func __init__(self, v) { print(v) } }  p = P(7)
    << ClassDef("P",
         << FunctionDef("__init__", <<"self", "v">>,
              <<ExpressionStatement(CallName("print", <<Id("v")>>))>>) >>),
       Assignment("p", CallName("P", <<Num(7)>>)) >>,
    \* 14: class E { func z() { return 1 } }  e = E()  r = e.z()
    << ClassDef("E", <<FunctionDef("z", <<>>, <<Return(Num(1))>>)>>),
       Assignment("e", CallName("E", <<>>)),
       Assignment("r", CallMethod(Id("e"), "z", <<>>)) >>,
    \* 15: class F { func m(self, a) { return a } }
    \*     o = F()  r = o.m(5)  q = o.nothing()
    << ClassDef("F", <<FunctionDef("m", <<"self", "a">>, <<Return(Id("a"))>>)>>),
       Assignment("o", CallName("F", <<>>)),
       Assignment("r", CallMethod(Id("o"), "m", <<Num(5)>>)),
       Assignment("q", CallMethod(Id("o"), "nothing", <<>>)) >>,
    \* 16: func len(x) { return 42 }  r = len([1, 2])
    << FunctionDef("len", <<"x">>, <<Return(Num(42))>>),
       Assignment("r", CallName("len", <<ListLiteral(<<Num(1), Num(2)>>)>>)) >>,
    \* 17: r = nosuch(1)
    << Assignment("r", CallName("nosuch", <<Num(1)>>)) >>,
    \* 18: func mk() { return K() }  class K { func m(self) { return 1 } }  o = mk()
    << FunctionDef("mk", <<>>, <<Return(CallName("K", <<>>))>>),
       ClassDef("K", <<FunctionDef("m", <<"self">>, <<Return(Num(1))>>)>>),
       Assignment("o", CallName("mk", <<>>)) >>,
    \* 19: a = 0  b = 1  if a { x = 1 } elif b { x = 2 } else { x = 3 }
    << Assignment("a", Num(0)), Assignment("b", Num(1)),
       IfStatement(Id("a"), <<Assignment("x", Num(1))>>,
                   <<ElifClause(Id("b"), <<Assignment("x", Num(2))>>)>>,
                   <<Assignment("x", Num(3))>>) >>,
    \* 20: c = 1  while c { break }
    << Assignment("c", Num(1)), WhileLoop(Id("c"), <<BreakStatement>>) >>,
    \* 21: for i in [1, 2] { if i { continue } }
    << ForLoop("i", ListLiteral(<<Num(1), Num(2)>>),
               <<IfStatement(Id("i"), <<ContinueStatement>>, <<>>, <<>>)>>) >>,
    \* 22: repeat { n = 0 } while n
    << RepeatLoop(Id("n"), <<Assignment("n", Num(0))>>) >>,
    \* 23: v = 2  switch v { case 1: x = 1  case 2: x = 2  default: x = 3 }
    << Assignment("v", Num(2)),
       SwitchStatement(Id("v"),
                       << CaseClause(Some(Num(1)), <<Assignment("x", Num(1))>>),
                          CaseClause(Some(Num(2)), <<Assignment("x", Num(2))>>) >>,
                       Some(<<Assignment("x", Num(3))>>)) >>,
    \* 24: ys = [y for y in [0, 1] if y]
    << Assignment("ys", ListComprehension(Id("y"), "y",
                                          ListLiteral(<<Num(0), Num(1)>>),
                                          Some(Id("y")))) >>,
    \* 25: func k(n) { if n { return 1 } }  r = k(0)
    << FunctionDef("k", <<"n">>,
         <<IfStatement(Id("n"), <<Return(Num(1))>>, <<>>, <<>>)>>),
       Assignment("r", CallName("k", <<Num(0)>>)) >>,
    \* 26: s = "say \"hi\""  t = true  u = none  w = not t
    << Assignment("s", Str("say \"hi\"")), Assignment("t", BooleanLiteral(TRUE)),
       Assignment("u", NoneLiteral),
       Assignment("w", UnaryOperation("not", Id("t"))) >>,
    \* 27: func r(n) { return r(n) }  x = r(1)
    << FunctionDef("r", <<"n">>, <<Return(CallName("r", <<Id("n")>>))>>),
       Assignment("x", CallName("r", <<Num(1)>>)) >>,
    \* 28: try { throw "b"  try { x = 1 } catch e { y = 1 } } catch e2 { z = 1 }
    << TryStatement(
         << ThrowStatement(Str("b")),
            TryStatement(<<Assignment("x", Num(1))>>,
                         <<CatchAll("e", <<Assignment("y", Num(1))>>)>>, <<>>) >>,
         <<CatchAll("e2", <<Assignment("z", Num(1))>>)>>, <<>>) >>,
    \* 29: try { x = 1 } finally { y = 1 }  z = 1
    << TryStatement(<<Assignment("x", Num(1))>>, <<>>, <<Assignment("y", Num(1))>>),
       Assignment("z", Num(1)) >>,
    \* 30: try { throw "boom" } catch e { x = 1 } finally { y = 1 }  z = 1
    << TryStatement(<<ThrowStatement(Str("boom"))>>,
                    <<CatchAll("e", <<Assignment("x", Num(1))>>)>>,
                    <<Assignment("y", Num(1))>>),
       Assignment("z", Num(1)) >>,
    \* 31: try { x = 1 } catch e { w = 1 } finally { y = 1 }  z = 1
    << TryStatement(<<Assignment("x", Num(1))>>,
                    <<CatchAll("e", <<Assignment("w", Num(1))>>)>>,
                    <<Assignment("y", Num(1))>>),
       Assignment("z", Num(1)) >>,
    \* 32: var n: int  func f(n) { n = 5  return n }  r = f(1)
    << VarDeclaration("n", "int", None),
       FunctionDef("f", <<"n">>, <<Assignment("n", Num(5)), Return(Id("n"))>>),
       Assignment("r", CallName("f", <<Num(1)>>)) >>,
    \* 33: i = 0  func f() { for i in [7] { j = i }  return 0 }  r = f()
    << Assignment("i", Num(0)),
       FunctionDef("f", <<>>,
         << ForLoop("i", ListLiteral(<<Num(7)>>), <<Assignment("j", Id("i"))>>),
            Return(Num(0)) >>),
       Assignment("r", CallName("f", <<>>)) >>,
    \* 34: try { r = nosuch(1) } catch e { z = 1 }
    << TryStatement(<<Assignment("r", CallName("nosuch", <<Num(1)>>))>>,
                    <<CatchAll("e", <<Assignment("z", Num(1))>>)>>, <<>>) >>,
    \* 35: try { for i in 5 { w = 1 } } catch e { z = 1 }
    << TryStatement(<<ForLoop("i", Num(5), <<Assignment("w", Num(1))>>)>>,
                    <<CatchAll("e", <<Assignment("z", Num(1))>>)>>, <<>>) >>,
    \* 36: class Q { func m(self) { return 1 } }  q = Q()  print(q)  print([1, "a"])
    << ClassDef("Q", <<FunctionDef("m", <<"self">>, <<Return(Num(1))>>)>>),
       Assignment("q", CallName("Q", <<>>)),
       ExpressionStatement(CallName("print", <<Id("q")>>)),
       ExpressionStatement(CallName("print", <<ListLiteral(<<Num(1), Str("a")>>)>>)) >>,
    \* 37: s = f""
    << Assignment("s", FStringLiteral(<<>>)) >>,
    \* 38: s = f"a"  t = [1]
    << Assignment("s", FStringLiteral(<<TextPart("a")>>)),
       Assignment("t", ListLiteral(<<Num(1)>>)) >>,
    \* 39: for c in "ab" { t = c }  for i in [] { t = 1 }  d = 1
    << ForLoop("c", Str("ab"), <<Assignment("t", Id("c"))>>),
       ForLoop("i", ListLiteral(<<>>), <<Assignment("t", Num(1))>>),
       Assignment("d", Num(1)) >>,
    \* 40: for i in [1, 2] { print(i) }  d = 1
    << ForLoop("i", ListLiteral(<<Num(1), Num(2)>>),
               <<ExpressionStatement(CallName("print", <<Id("i")>>))>>),
       Assignment("d", Num(1)) >>,
    \* 41: v = 5  switch v { case 1: a = 1  default: d = 1 }  z = 1
    << Assignment("v", Num(5)),
       SwitchStatement(Id("v"),
                       <<CaseClause(Some(Num(1)), <<Assignment("a", Num(1))>>)>>,
                       Some(<<Assignment("d", Num(1))>>)),
       Assignment("z", Num(1)) >>,
    \* 42: v = 1  switch v { case 1: a = 1  case 1: b = 1 }  z = 1
    << Assignment("v", Num(1)),
       SwitchStatement(Id("v"),
                       << CaseClause(Some(Num(1)), <<Assignment("a", Num(1))>>),
                          CaseClause(Some(Num(1)), <<Assignment("b", Num(1))>>) >>,
                       None),
       Assignment("z", Num(1)) >>,
    \* 43: try { throw "a" } catch e { try { x = 1 } catch e2 { y = 1 } }  z = 1
    << TryStatement(<<ThrowStatement(Str("a"))>>,
                    <<CatchAll("e",
                        <<TryStatement(<<Assignment("x", Num(1))>>,
                                       <<CatchAll("e2", <<Assignment("y", Num(1))>>)>>,
                                       <<>>)>>)>>,
                    <<>>),
       Assignment("z", Num(1)) >>,
    \* 44: try { x = 1 } catch TypeError as e { a = 1 }
    \*     catch e2 { try { y = 1 } catch e3 { w = 1 }  b = 1 }
    \*     z = 1
    << TryStatement(<<Assignment("x", Num(1))>>,
                    << CatchType("TypeError", "e", <<Assignment("a", Num(1))>>),
                       CatchAll("e2",
                         << TryStatement(<<Assignment("y", Num(1))>>,
                                         <<CatchAll("e3", <<Assignment("w", Num(1))>>)>>,
                                         <<>>),
                            Assignment("b", Num(1)) >>) >>,
                    <<>>),
       Assignment("z", Num(1)) >>,
    \* 45: if print("p") { a = 1 } elif not print("q") { b = 1 }
    \*     elif not print("r") { c = 1 } else { d = 1 }
    \*     z = 1
    << IfStatement(CallName("print", <<Str("p")>>), <<Assignment("a", Num(1))>>,
                   << ElifClause(UnaryOperation("not", CallName("print", <<Str("q")>>)),
                                 <<Assignment("b", Num(1))>>),
                      ElifClause(UnaryOperation("not", CallName("print", <<Str("r")>>)),
                                 <<Assignment("c", Num(1))>>) >>,
                   <<Assignment("d", Num(1))>>),
       Assignment("z", Num(1)) >>,
    \* 46: if print("p") { a = 1 } elif print("q") { b = 1 } else { d = 1 }  z = 1
    << IfStatement(CallName("print", <<Str("p")>>), <<Assignment("a", Num(1))>>,
                   <<ElifClause(CallName("print", <<Str("q")>>),
                                <<Assignment("b", Num(1))>>)>>,
                   <<Assignment("d", Num(1))>>),
       Assignment("z", Num(1)) >>,
    \* 47: if not print("p") { a = 1 } elif print("q") { b = 1 } else { d = 1 }
    \*     if print("r") { h = 1 }
    \*     z = 1
    << IfStatement(UnaryOperation("not", CallName("print", <<Str("p")>>)),
                   <<Assignment("a", Num(1))>>,
                   <<ElifClause(CallName("print", <<Str("q")>>),
                                <<Assignment("b", Num(1))>>)>>,
                   <<Assignment("d", Num(1))>>),
       IfStatement(CallName("print", <<Str("r")>>), <<Assignment("h", Num(1))>>,
                   <<>>, <<>>),
       Assignment("z", Num(1)) >>,
    \* 48: d = {"a": 1, "b": 2}
    << Assignment("d", DictLiteral(<< <<Str("a"), Num(1)>>, <<Str("b"), Num(2)>> >>)) >>,
    \* 49: for k in {"a": 1} { t = k }  z = 1
    << ForLoop("k", DictLiteral(<< <<Str("a"), Num(1)>> >>),
               <<Assignment("t", Id("k"))>>),
       Assignment("z", Num(1)) >>,
    \* 50: for k in 5 { t = k }  z = 1
    << ForLoop("k", Num(5), <<Assignment("t", Id("k"))>>),
       Assignment("z", Num(1)) >>,
    \* 51: try { x = 1 } catch e { y = 1 }  throw "late"  z = 1
    << TryStatement(<<Assignment("x", Num(1))>>,
                    <<CatchAll("e", <<Assignment("y", Num(1))>>)>>, <<>>),
       ThrowStatement(Str("late")),
       Assignment("z", Num(1)) >>,
    \* 52: a = 1  b = true  c = false  d = 0  e = "a"
    << Assignment("a", Num(1)), Assignment("b", BooleanLiteral(TRUE)),
       Assignment("c", BooleanLiteral(FALSE)), Assignment("d", Num(0)),
       Assignment("e", Str("a")) >>
>>

-----------------------------------------------------------------------------
(* The pipeline: generate, then load_bytecode of one of the two VMs.        *)

Init ==
    /\ prog \in 1..Len(Programs)
    /\ gen = CodeGenerator
    /\ bytecode = <<>>
    /\ phase = "compile"
    /\ vmkind = "none"
    /\ constants = <<>>
    /\ global_vars = <<>>
    /\ globals = <<>>
    /\ functions = <<>>
    /\ instructions = <<>>
    /\ classes = <<>>
    /\ stack = <<>>
    /\ call_stack = <<>>
    /\ pc = 0
    /\ exception_stack = <<>>
    /\ current_exception = None
    /\ heap = <<>>
    /\ output = <<>>
    /\ status = "idle"
    /\ error = "none"
    /\ call = None
    /\ lexer = None
    /\ program = None
    /\ blob = <<>>
    /\ exit_status = None

\* CodeGenerator.generate(ast)
generate ==
    /\ phase = "compile"
    /\ gen' = emit(CompileBody(gen, Programs[prog]), HALT, None)
    /\ bytecode' = serialize_bytecode(gen')
    /\ phase' = "serialized"
    /\ UNCHANGED <<prog, vmkind, constants, global_vars, globals, functions,
                   instructions, classes, stack, call_stack, pc, exception_stack,
                   current_exception, heap, output, status, error, call, lexer,
                   program, blob, exit_status>>

\* One length-prefixed section of the container, read at offset.
Section(b, offset) ==
    LET size == unpack_I(Slice(b, offset, offset + 4))
    IN [data |-> Slice(b, offset + 4, offset + 4 + size),
        offset |-> offset + 4 + size]

\* The four json.loads results of load_bytecode, in file order.
Sections(b) ==
    LET c == Section(b, 6)
        g == Section(b, c.offset)
        f == Section(b, g.offset)
        m == Section(b, f.offset)
    IN [constants |-> loads(decode(c.data)),
        global_vars_map |-> loads(decode(g.data)),
        functions_dict |-> loads(decode(f.data)),
        instructions_data |-> loads(decode(m.data))]

\* The members of aquavm.OpCode: OpCode(n) raises ValueError for any other n.
OpCodeValues ==
    {1, 2, 3, 4, 5, 6, 7, 9, 16, 17, 18, 19, 20, 21, 32, 33, 34, 35, 36, 37, 38,
     48, 49, 50, 64, 65, 66, 80, 81, 82, 96, 97, 98, 99, 100, 101, 102, 103, 104,
     105, 106, 107, 108, 109, 110, 111, 112, 114, 122, 128, 129, 130, 144, 145,
     146, 147, 148, 149, 150, 151, 152, 255}

\* A JSON object name -> index as the dict the VM keeps.
ValueIndexDict(v) == [i \in 1..Len(v.d) |-> <<v.d[i][1], v.d[i][2].n>>]

\* "[Instruction(OpCode(opcode), operand) for opcode, operand in data]"; the
\* optimized VM keeps the [opcode, operand] pairs as they are.
ValueInstructions(v) ==
    [i \in 1..Len(v.l) |-> Instruction(v.l[i].l[1].n, ValueOperand(v.l[i].l[2]))]

\* The function table built by the loop over functions_dict.items().
ValueFunctions(v) ==
    [i \in 1..Len(v.d) |->
        <<v.d[i][1],
          Function(v.d[i][1],
                   [j \in 1..Len(DictGet(v.d[i][2].d, "parameters").l) |->
                       DictGet(v.d[i][2].d, "parameters").l[j].s],
                   ValueInstructions(DictGet(v.d[i][2].d, "instructions")),
                   ValueIndexDict(DictGet(v.d[i][2].d, "local_vars")))>>]

AllOpCodesValid(s) ==
    /\ \A i \in 1..Len(s.instructions_data.l) :
          s.instructions_data.l[i].l[1].n \in OpCodeValues
    /\ \A i \in 1..Len(s.functions_dict.d) :
          \A j \in 1..Len(DictGet(s.functions_dict.d[i][2].d, "instructions").l) :
             DictGet(s.functions_dict.d[i][2].d, "instructions").l[j].l[1].n
                \in OpCodeValues

\* A loader that tests the magic number only.
HeaderValid_magic_only(b) == Slice(b, 0, 4) = header

HeaderValid(b) == Slice(b, 0, 4) = header /\ unpack_H(Slice(b, 4, 6)) = 1

\* The files the VM is started on: the compiler's output, and that output
\* with another magic number or another version.
Blobs(b) ==
    {b, [b EXCEPT ![4] = 66], [b EXCEPT ![5] = 2], [b EXCEPT ![6] = 1]}

\* AquaVM.load_bytecode
AquaVM_load_bytecode ==
    /\ phase = "serialized"
    /\ vmkind' = "aqua"
    /\ blob' \in Blobs(bytecode)
    /\ IF HeaderValid(blob') /\ AllOpCodesValid(Sections(blob'))
       THEN LET s == Sections(blob')
            IN /\ constants' = s.constants.l
               /\ global_vars' = ValueIndexDict(s.global_vars_map)
               /\ globals' = [i \in 1..Len(s.global_vars_map.d) |-> NilV]
               /\ functions' = ValueFunctions(s.functions_dict)
               /\ instructions' = ValueInstructions(s.instructions_data)
               /\ phase' = "loaded"
               /\ UNCHANGED <<status, error>>
       ELSE /\ status' = "error"
            /\ error' = "ValueError"
            /\ phase' = "load_error"
            /\ UNCHANGED <<constants, global_vars, globals, functions, instructions>>
    /\ UNCHANGED <<prog, gen, bytecode, classes, stack, call_stack, pc,
                   exception_stack, current_exception, heap, output, call, lexer,
                   program, exit_status>>

\* OptimizedAquaVM._initialize_globals: the loop from pc p with operand stack
\* stk and globals gl; the globals it leaves, and the error it raised if any.
RECURSIVE _initialize_globals(_, _, _, _, _)
_initialize_globals(instrs, consts, p, stk, gl) ==
    IF p >= Len(instrs) THEN [globals |-> gl, error |-> "none"]
    ELSE LET opcode_value == instrs[p + 1].opcode
             operand == instrs[p + 1].operand
         IN IF opcode_value \in {Opt_CALL, Opt_JUMP_IF_TRUE, Opt_JUMP_IF_FALSE, Opt_JUMP}
            THEN [globals |-> gl, error |-> "none"]
            ELSE IF opcode_value \in {Opt_LOAD_CONST, Opt_LOAD_FUNC}
            THEN IF operand[1] >= Len(consts)
                 THEN [globals |-> gl, error |-> "IndexError"]
                 ELSE _initialize_globals(instrs, consts, p + 1,
                                          Append(stk, consts[operand[1] + 1]), gl)
            ELSE IF opcode_value = Opt_STORE_VAR
            THEN IF stk = <<>>
                 THEN [globals |-> gl, error |-> "StackUnderflowError"]
                 ELSE IF operand[1] >= Len(gl)
                 THEN [globals |-> gl, error |-> "IndexError"]
                 ELSE _initialize_globals(instrs, consts, p + 1,
                                          SubSeq(stk, 1, Len(stk) - 1),
                                          [gl EXCEPT ![operand[1] + 1] = stk[Len(stk)]])
            ELSE IF opcode_value = Opt_TYPE_CHECK
            THEN _initialize_globals(instrs, consts, p + 1, stk, gl)
            ELSE [globals |-> gl, error |-> "none"]

\* OptimizedAquaVM.load_bytecode
OptimizedAquaVM_load_bytecode ==
    /\ phase = "serialized"
    /\ vmkind' = "opt"
    /\ blob' \in Blobs(bytecode)
    /\ IF HeaderValid(blob')
       THEN LET s == Sections(blob')
                r == _initialize_globals(ValueInstructions(s.instructions_data),
                                         s.constants.l, 0, <<>>,
                                         [i \in 1..Len(s.global_vars_map.d) |-> NilV])
            IN /\ constants' = s.constants.l
               /\ global_vars' = ValueIndexDict(s.global_vars_map)
               /\ globals' = r.globals
               /\ functions' = ValueFunctions(s.functions_dict)
               /\ instructions' = ValueInstructions(s.instructions_data)
               /\ IF r.error = "none"
                  THEN phase' = "loaded" /\ UNCHANGED <<status, error>>
                  ELSE phase' = "load_error" /\ status' = "error" /\ error' = r.error
       ELSE /\ status' = "error"
            /\ error' = "ValueError"
            /\ phase' = "load_error"
            /\ UNCHANGED <<constants, global_vars, globals, functions, instructions>>
    /\ UNCHANGED <<prog, gen, bytecode, classes, stack, call_stack, pc,
                   exception_stack, current_exception, heap, output, call, lexer,
                   program, exit_status>>

\* run(): "self.pc = 0", then the loop whose iterations are the actions below.
run ==
    /\ phase = "loaded"
    /\ phase' = "run"
    /\ pc' = 0
    /\ status' = "running"
    /\ UNCHANGED <<prog, gen, bytecode, vmkind, constants, global_vars, globals,
                   functions, instructions, classes, stack, call_stack,
                   exception_stack, current_exception, heap, output, error, call,
                   lexer, program, blob, exit_status>>

-----------------------------------------------------------------------------
(* What both run loops share: fetching the next instruction of the top      *)
(* frame, or of the main program when the call stack is empty.              *)

\* Python's l[i], where a negative i counts from the end.
At(l, i) == IF i >= 0 THEN l[i + 1] ELSE l[Len(l) + i + 1]
Top(s) == s[Len(s)]
Pop(s) == SubSeq(s, 1, Len(s) - 1)
PopN(s, n) == SubSeq(s, 1, Len(s) - n)
LastN(s, n) == SubSeq(s, Len(s) - n + 1, Len(s))

CurrentInstructions ==
    IF call_stack # <<>>
    THEN DictGet(functions, Top(call_stack).function).instructions
    ELSE instructions
CurrentPc == IF call_stack # <<>> THEN Top(call_stack).pc ELSE pc
Instr == At(CurrentInstructions, CurrentPc)
Operand == Instr.operand[1]

\* "frame.pc += 1" or "self.pc += 1" of the fetch
NextCallStack ==
    IF call_stack # <<>> THEN [call_stack EXCEPT ![Len(call_stack)].pc = @ + 1]
    ELSE call_stack
NextPc == IF call_stack # <<>> THEN pc ELSE pc + 1

\* "if self.call_stack: self.call_stack[-1].pc = target  else: self.pc = target"
JumpCallStack(target) ==
    IF call_stack # <<>> THEN [call_stack EXCEPT ![Len(call_stack)].pc = target]
    ELSE call_stack
JumpPc(target) == IF call_stack # <<>> THEN pc ELSE target

\* The instruction ran: the stack, the frames and the main pc it leaves.
Go(stk, cs, p) ==
    /\ stack' = stk
    /\ call_stack' = cs
    /\ pc' = p
    /\ UNCHANGED <<status, error>>

\* The instruction raised: run() catches the exception and returns.
Fail(kind, stk) ==
    /\ stack' = stk
    /\ call_stack' = NextCallStack
    /\ pc' = NextPc
    /\ status' = "error"
    /\ error' = kind

\* An instruction that needs `need` operands and leaves the stack stk behind,
\* falling through to the next instruction.
Advance(need, kind, empty, stk) ==
    IF Len(stack) < need THEN Fail(kind, empty)
    ELSE Go(stk, NextCallStack, NextPc)

Static == <<prog, gen, bytecode, phase, vmkind, constants, global_vars,
            functions, instructions, call, lexer, program, blob, exit_status>>

\* print(output) of the print builtins: ' '.join(str(arg) for arg in args)
RECURSIVE JoinStrIn(_, _)
JoinStrIn(h, args) ==
    IF args = <<>> THEN ""
    ELSE IF Len(args) = 1 THEN StrIn(h, args[1])
    ELSE StrIn(h, args[1]) \o " " \o JoinStrIn(h, Tail(args))

JoinStr(args) == JoinStrIn(heap, args)

-----------------------------------------------------------------------------
(* AquaVM (vm/aquavm.py): one action per branch of execute_instruction.     *)
(* A pop from the empty stack raises IndexError and leaves it empty.        *)

AquaRunning ==
    /\ phase = "run" /\ vmkind = "aqua" /\ status = "running"
    /\ pc < Len(instructions)
    /\ CurrentPc < Len(CurrentInstructions)
AquaFetch(opcode) == AquaRunning /\ Instr.opcode = opcode

\* CallFrame(function, return_address), with the arguments stored
CallFrame(function, return_address, args) ==
    [function |-> function.name, return_address |-> return_address, pc |-> 0,
     locals |-> [i \in 1..Len(function.local_vars) |->
                    IF i <= Len(args) THEN args[i] ELSE NilV]]

ExceptionHandler(exception_type, catch_pc, in_function) ==
    [exception_type |-> exception_type, catch_pc |-> catch_pc,
     finally_pc |-> None, in_function |-> in_function]

\* The builtins the programs call: the error raised, the result, the printed
\* lines.
builtins(name, args) ==
    CASE name = "print" ->
            [error |-> "none", result |-> NilV, printed |-> <<JoinStr(args)>>]
      [] name = "len" ->
            IF Len(args) = 1 /\ args[1].t = "list"
            THEN [error |-> "none", result |-> IntV(Len(args[1].l)), printed |-> <<>>]
            ELSE IF Len(args) = 1 /\ args[1].t = "str"
            THEN [error |-> "none", result |-> IntV(Len(args[1].s)), printed |-> <<>>]
            ELSE [error |-> "TypeError", result |-> NilV, printed |-> <<>>]

AquaBuiltins == {"print", "str", "int", "float", "len", "range"}

RECURSIVE _find_catch_block(_, _)
\* "for i in range(pc + 1, len(instructions))", entered with i
_find_catch_block(instrs, i) ==
    IF i >= Len(instrs) THEN -1
    ELSE IF instrs[i + 1].opcode = CATCH_BEGIN THEN i
    ELSE _find_catch_block(instrs, i + 1)

RECURSIVE _skip_catch_blocks(_, _, _)
\* the pc _skip_catch_blocks leaves, from pc p with catch_depth
_skip_catch_blocks(instrs, p, catch_depth) ==
    IF p >= Len(instrs) THEN p
    ELSE IF At(instrs, p).opcode = CATCH_BEGIN
    THEN _skip_catch_blocks(instrs, p + 1, catch_depth + 1)
    ELSE IF At(instrs, p).opcode = CATCH_END
    THEN IF catch_depth - 1 = 0 THEN p + 1
         ELSE _skip_catch_blocks(instrs, p + 1, catch_depth - 1)
    ELSE _skip_catch_blocks(instrs, p + 1, catch_depth)

RECURSIVE _skip_current_catch_block(_, _)
_skip_current_catch_block(instrs, p) ==
    IF p >= Len(instrs) THEN p
    ELSE IF At(instrs, p).opcode = CATCH_END THEN p + 1
    ELSE _skip_current_catch_block(instrs, p + 1)

RECURSIVE _handle_exception(_, _, _)
\* The handler loop of _handle_exception over the exception stack es, with
\* frames cs and main pc p; raised when no handler is left.
_handle_exception(es, cs, p) ==
    IF es = <<>>
    THEN [exception_stack |-> es, call_stack |-> cs, pc |-> p, raised |-> TRUE]
    ELSE IF Top(es).catch_pc # -1
    THEN IF Top(es).in_function /\ cs # <<>>
         THEN [exception_stack |-> es,
               call_stack |-> [cs EXCEPT ![Len(cs)].pc = Top(es).catch_pc],
               pc |-> p, raised |-> FALSE]
         ELSE [exception_stack |-> es, call_stack |-> cs,
               pc |-> Top(es).catch_pc, raised |-> FALSE]
    ELSE _handle_exception(Pop(es), cs, p)

AquaQuiet == UNCHANGED <<globals, classes, exception_stack, current_exception,
                         heap, output>>

Aqua_LOAD_CONST ==
    /\ AquaFetch(LOAD_CONST)
    /\ Advance(0, "IndexError", <<>>, Append(stack, constants[Operand + 1]))
    /\ UNCHANGED Static /\ AquaQuiet

Aqua_LOAD_GLOBAL ==
    /\ AquaFetch(LOAD_GLOBAL)
    /\ Advance(0, "IndexError", <<>>, Append(stack, globals[Operand + 1]))
    /\ UNCHANGED Static /\ AquaQuiet

Aqua_STORE_GLOBAL ==
    /\ AquaFetch(STORE_GLOBAL)
    /\ Advance(1, "IndexError", <<>>, Pop(stack))
    /\ globals' = IF stack = <<>> THEN globals
                  ELSE [globals EXCEPT ![Operand + 1] = Top(stack)]
    /\ UNCHANGED Static
    /\ UNCHANGED <<classes, exception_stack, current_exception, heap, output>>

Aqua_LOAD_LOCAL ==
    /\ AquaFetch(LOAD_LOCAL)
    /\ IF call_stack # <<>>
       THEN Go(Append(stack, Top(call_stack).locals[Operand + 1]),
               NextCallStack, NextPc)
       ELSE Fail("RuntimeError", stack)
    /\ UNCHANGED Static /\ AquaQuiet

Aqua_STORE_LOCAL ==
    /\ AquaFetch(STORE_LOCAL)
    /\ IF call_stack = <<>> THEN Fail("RuntimeError", stack)
       ELSE IF stack = <<>> THEN Fail("IndexError", <<>>)
       ELSE Go(Pop(stack),
               [NextCallStack EXCEPT ![Len(call_stack)].locals[Operand + 1] = Top(stack)],
               NextPc)
    /\ UNCHANGED Static /\ AquaQuiet

Aqua_EQ ==
    /\ AquaFetch(EQ)
    /\ Advance(2, "IndexError", <<>>,
               Append(PopN(stack, 2),
                      BoolV(PyEq(stack[Len(stack) - 1], stack[Len(stack)]))))
    /\ UNCHANGED Static /\ AquaQuiet

Aqua_NOT ==
    /\ AquaFetch(NOT)
    /\ Advance(1, "IndexError", <<>>, Append(Pop(stack), BoolV(~Truthy(Top(stack)))))
    /\ UNCHANGED Static /\ AquaQuiet

Aqua_JUMP ==
    /\ AquaFetch(JUMP)
    /\ Go(stack, JumpCallStack(Operand), JumpPc(Operand))
    /\ UNCHANGED Static /\ AquaQuiet

Aqua_JUMP_IF_FALSE ==
    /\ AquaFetch(JUMP_IF_FALSE)
    /\ IF stack = <<>> THEN Fail("IndexError", <<>>)
       ELSE IF ~Truthy(Top(stack))
       THEN Go(Pop(stack), JumpCallStack(Operand), JumpPc(Operand))
       ELSE Go(Pop(stack), NextCallStack, NextPc)
    /\ UNCHANGED Static /\ AquaQuiet

Aqua_JUMP_IF_TRUE ==
    /\ AquaFetch(JUMP_IF_TRUE)
    /\ IF stack = <<>> THEN Fail("IndexError", <<>>)
       ELSE IF Truthy(Top(stack))
       THEN Go(Pop(stack), JumpCallStack(Operand), JumpPc(Operand))
       ELSE Go(Pop(stack), NextCallStack, NextPc)
    /\ UNCHANGED Static /\ AquaQuiet

\* CALL, with call_function
Aqua_CALL ==
    /\ AquaFetch(CALL)
    /\ LET argc == Operand
           args == LastN(stack, argc)
           func == stack[Len(stack) - argc]
           rest == PopN(stack, argc + 1)
       IN IF Len(stack) < argc + 1
          THEN Fail("IndexError", <<>>) /\ UNCHANGED output
          ELSE IF func.t # "str"
          THEN Fail("TypeError", rest) /\ UNCHANGED output
          ELSE IF func.s \in AquaBuiltins
          THEN LET r == builtins(func.s, args)
               IN /\ output' = output \o r.printed
                  /\ IF r.error # "none" THEN Fail(r.error, rest)
                     ELSE Go(Append(rest, r.result), NextCallStack, NextPc)
          ELSE IF DictHas(functions, func.s)
          THEN LET function == DictGet(functions, func.s)
               IN /\ UNCHANGED output
                  /\ IF Len(args) # Len(function.parameters)
                     THEN Fail("TypeError", rest)
                     ELSE /\ Len(call_stack) < MaxCallDepth
                          /\ Go(rest,
                                Append(NextCallStack, CallFrame(function, NextPc, args)),
                                NextPc)
          ELSE Fail("NameError", rest) /\ UNCHANGED output
    /\ UNCHANGED Static
    /\ UNCHANGED <<globals, classes, exception_stack, current_exception, heap>>

Aqua_RETURN ==
    /\ AquaFetch(RETURN)
    /\ IF stack = <<>> THEN Fail("IndexError", <<>>)
       ELSE IF call_stack # <<>>
       THEN Go(stack, Pop(call_stack), Top(call_stack).return_address)
       ELSE Go(stack, NextCallStack, NextPc)
    /\ UNCHANGED Static /\ AquaQuiet

Aqua_LOAD_FUNC ==
    /\ AquaFetch(LOAD_FUNC)
    /\ Advance(0, "IndexError", <<>>, Append(stack, constants[Operand + 1]))
    /\ UNCHANGED Static /\ AquaQuiet

\* OpCode.POP, which is also what OpCode(0x60) decodes to: TYPE_CHECK is an
\* alias of it in this enumeration.
Aqua_POP ==
    /\ AquaFetch(POP)
    /\ Advance(1, "IndexError", <<>>, Pop(stack))
    /\ UNCHANGED Static /\ AquaQuiet

Aqua_DUP ==
    /\ AquaFetch(DUP)
    /\ Advance(1, "IndexError", <<>>, Append(stack, Top(stack)))
    /\ UNCHANGED Static /\ AquaQuiet

\* HALT raises SystemExit, which run() swallows.
Aqua_HALT ==
    /\ AquaFetch(HALT)
    /\ stack' = stack /\ call_stack' = NextCallStack /\ pc' = NextPc
    /\ status' = "halted"
    /\ UNCHANGED error
    /\ UNCHANGED Static /\ AquaQuiet

Aqua_TRY_BEGIN ==
    /\ AquaFetch(TRY_BEGIN)
    /\ exception_stack' =
          Append(exception_stack,
                 ExceptionHandler(None,
                                  _find_catch_block(CurrentInstructions, CurrentPc + 2),
                                  call_stack # <<>>))
    /\ Go(stack, NextCallStack, NextPc)
    /\ UNCHANGED Static
    /\ UNCHANGED <<globals, classes, current_exception, heap, output>>

Aqua_TRY_END ==
    /\ AquaFetch(TRY_END)
    /\ IF current_exception = None
       THEN LET p == _skip_catch_blocks(CurrentInstructions, CurrentPc + 1, 0)
            IN Go(stack, JumpCallStack(p), JumpPc(p))
       ELSE Go(stack, NextCallStack, NextPc)
    /\ UNCHANGED Static /\ AquaQuiet

Aqua_CATCH_BEGIN ==
    /\ AquaFetch(CATCH_BEGIN)
    /\ IF \/ current_exception = None
          \/ /\ Instr.operand # None
             /\ StrV(current_exception[1].type) # constants[Operand + 1]
       THEN LET p == _skip_current_catch_block(CurrentInstructions, CurrentPc + 1)
            IN Go(stack, JumpCallStack(p), JumpPc(p))
       ELSE Go(Append(stack, current_exception[1]), NextCallStack, NextPc)
    /\ UNCHANGED Static /\ AquaQuiet

Aqua_CATCH_END ==
    /\ AquaFetch(CATCH_END)
    /\ exception_stack' = IF exception_stack # <<>> THEN Pop(exception_stack)
                          ELSE exception_stack
    /\ current_exception' = None
    /\ Go(stack, NextCallStack, NextPc)
    /\ UNCHANGED Static
    /\ UNCHANGED <<globals, classes, heap, output>>

Aqua_FINALLY_BEGIN ==
    /\ AquaFetch(FINALLY_BEGIN)
    /\ exception_stack' =
          IF exception_stack # <<>>
          THEN [exception_stack EXCEPT
                   ![Len(exception_stack)].finally_pc = Some(CurrentPc + 1)]
          ELSE exception_stack
    /\ Go(stack, NextCallStack, NextPc)
    /\ UNCHANGED Static
    /\ UNCHANGED <<globals, classes, current_exception, heap, output>>

Aqua_FINALLY_END ==
    /\ AquaFetch(FINALLY_END)
    /\ IF current_exception # None
       THEN LET h == _handle_exception(exception_stack, NextCallStack, NextPc)
            IN /\ exception_stack' = h.exception_stack
               /\ IF h.raised THEN Fail("AquaException", stack)
                  ELSE Go(stack, h.call_stack, h.pc)
       ELSE Go(stack, NextCallStack, NextPc) /\ UNCHANGED exception_stack
    /\ UNCHANGED Static
    /\ UNCHANGED <<globals, classes, current_exception, heap, output>>

Aqua_THROW ==
    /\ AquaFetch(THROW)
    /\ IF stack = <<>>
       THEN Fail("IndexError", <<>>) /\ UNCHANGED <<exception_stack, current_exception>>
       ELSE LET exception == ExcV("Exception", PyStr(Top(stack)))
                h == _handle_exception(exception_stack, NextCallStack, NextPc)
            IN /\ current_exception' = Some(exception)
               /\ exception_stack' = h.exception_stack
               /\ IF h.raised THEN Fail("AquaException", Pop(stack))
                  ELSE Go(Pop(stack), h.call_stack, h.pc)
    /\ UNCHANGED Static
    /\ UNCHANGED <<globals, classes, heap, output>>

Aqua_BUILD_LIST ==
    /\ AquaFetch(BUILD_LIST)
    /\ Advance(Operand, "IndexError", <<>>,
               Append(PopN(stack, Operand), ListV(LastN(stack, Operand))))
    /\ UNCHANGED Static /\ AquaQuiet

RECURSIVE build_dict(_, _)
\* "for _ in range(operand): value = pop(); key = pop(); pairs[key] = value":
\* the dict after the pairs items = <<k1, v1, ..., kn, vn>> were popped, the last
\* pair first.  A Python dict keeps its keys in the order they were inserted.
build_dict(items, pairs) ==
    IF items = <<>> THEN pairs
    ELSE build_dict(SubSeq(items, 1, Len(items) - 2),
                    DictSet(pairs, items[Len(items) - 1], items[Len(items)]))

\* A list or a dict as a key: "TypeError: unhashable type".
Unhashable(items) ==
    \E i \in 1..Len(items) : i % 2 = 1 /\ items[i].t \in {"list", "dict"}

Aqua_BUILD_DICT ==
    /\ AquaFetch(BUILD_DICT)
    /\ IF Len(stack) < 2 * Operand THEN Fail("IndexError", <<>>)
       ELSE IF Unhashable(LastN(stack, 2 * Operand))
       THEN Fail("TypeError", PopN(stack, 2 * Operand))
       ELSE Go(Append(PopN(stack, 2 * Operand),
                      DictV(build_dict(LastN(stack, 2 * Operand), <<>>))),
               NextCallStack, NextPc)
    /\ UNCHANGED Static /\ AquaQuiet

\* iter(iterable) of a list, a string or a dict; anything else the programs
\* hand it is not iterable.
Aqua_GET_ITER ==
    /\ AquaFetch(GET_ITER)
    /\ IF stack = <<>> THEN Fail("IndexError", <<>>)
       ELSE IF Top(stack).t \notin {"list", "str", "dict"}
       THEN Fail("RuntimeError", Pop(stack))
       ELSE Go(Append(Pop(stack), IterV(Top(stack), 0, SeqLen(Top(stack)))),
               NextCallStack, NextPc)
    /\ UNCHANGED Static /\ AquaQuiet

Aqua_FOR_ITER ==
    /\ AquaFetch(FOR_ITER)
    /\ IF stack = <<>> THEN Fail("IndexError", <<>>)
       ELSE IF Top(stack).t # "iter" THEN Fail("TypeError", stack)
       ELSE LET iterator == Top(stack)
            IN IF iterator.idx < SeqLen(iterator.obj)
               THEN Go(Append([stack EXCEPT ![Len(stack)].idx = @ + 1],
                              SeqItem(iterator.obj, iterator.idx)),
                       NextCallStack, NextPc)
               ELSE Go(Pop(stack), JumpCallStack(Operand), JumpPc(Operand))
    /\ UNCHANGED Static /\ AquaQuiet

Aqua_LIST_APPEND ==
    /\ AquaFetch(LIST_APPEND)
    /\ IF stack = <<>> THEN Fail("IndexError", <<>>)
       ELSE IF Len(stack) - 1 < 2 \/ stack[Len(stack) - 2].t # "list"
       THEN Fail("RuntimeError", Pop(stack))
       ELSE Go([Pop(stack) EXCEPT ![Len(stack) - 2].l = Append(@, Top(stack))],
               NextCallStack, NextPc)
    /\ UNCHANGED Static /\ AquaQuiet

\* The members of OpCode that execute_instruction has no branch for.
AquaUnknown == {97, 104, 112, 114, 128, 129, 130, 152}

\* "else: raise ValueError(f'Unknown opcode: {opcode}')"
Aqua_unknown_opcode ==
    /\ AquaRunning
    /\ Instr.opcode \in AquaUnknown
    /\ Fail("ValueError", stack)
    /\ UNCHANGED Static /\ AquaQuiet

\* A frame whose pc ran off its function: execute_instruction returns at once
\* and run() calls it again, for ever.
Aqua_idle ==
    /\ phase = "run" /\ vmkind = "aqua" /\ status = "running"
    /\ pc < Len(instructions)
    /\ call_stack # <<>>
    /\ CurrentPc >= Len(CurrentInstructions)
    /\ status' = "spin"
    /\ UNCHANGED <<stack, call_stack, pc, error>>
    /\ UNCHANGED Static /\ AquaQuiet

AquaVM_execute_instruction ==
    \/ Aqua_LOAD_CONST \/ Aqua_LOAD_GLOBAL \/ Aqua_STORE_GLOBAL \/ Aqua_LOAD_LOCAL
    \/ Aqua_STORE_LOCAL \/ Aqua_EQ \/ Aqua_NOT \/ Aqua_JUMP \/ Aqua_JUMP_IF_FALSE
    \/ Aqua_JUMP_IF_TRUE \/ Aqua_CALL \/ Aqua_RETURN \/ Aqua_LOAD_FUNC \/ Aqua_POP
    \/ Aqua_DUP \/ Aqua_HALT \/ Aqua_TRY_BEGIN \/ Aqua_TRY_END \/ Aqua_CATCH_BEGIN
    \/ Aqua_CATCH_END \/ Aqua_FINALLY_BEGIN \/ Aqua_FINALLY_END \/ Aqua_THROW
    \/ Aqua_BUILD_LIST \/ Aqua_BUILD_DICT \/ Aqua_GET_ITER \/ Aqua_FOR_ITER
    \/ Aqua_LIST_APPEND
    \/ Aqua_unknown_opcode \/ Aqua_idle

-----------------------------------------------------------------------------
(* OptimizedAquaVM (vm/optimized_aquavm.py): one action per handler of the  *)
(* dispatch table.  A handler checks the stack before it pops, so an        *)
(* underflow leaves the stack as it was.  The table has no entry for 0x08   *)
(* in compiled code: the generator writes POP as 0x60, which this table     *)
(* gives to _op_type_check.                                                  *)

OptRunning ==
    /\ phase = "run" /\ vmkind = "opt" /\ status = "running"
    /\ CurrentPc < Len(CurrentInstructions)
OptFetch(opcode) == OptRunning /\ Instr.opcode = opcode

\* OptimizedCallFrame(function, return_address), with the arguments stored.
\* depth and resume are history: the operand stack depth and the caller's pc
\* when the calling instruction was fetched.
OptimizedCallFrame(function, return_address, args) ==
    [function |-> function.name, return_address |-> return_address, pc |-> 0,
     locals |-> [i \in 1..(Len(function.parameters) + Len(function.local_vars)) |->
                    IF i <= Len(args) THEN args[i] ELSE NilV],
     depth |-> Len(stack), resume |-> CurrentPc + 1]

AquaClass(name, methods) ==
    [name |-> name, methods |-> methods, attributes |-> <<>>, parent |-> None]

\* The start of the addresses the allocator hands out in one process; it
\* differs from process to process.
AddressBases == {"0x7f73834f", "0x7fcb31d5"}

\* AquaObject(class_ref), with the address the instance was allocated at
\* (its identity, which object.__repr__ shows).
AquaObject(class_ref, address) ==
    [class_ref |-> class_ref.name, attributes |-> class_ref.attributes,
     address |-> address]

RECURSIVE get_method(_, _, _)
\* AquaClass.get_method: the name of the function, Some(f), or None
get_method(cls, class_ref, name) ==
    IF DictHas(class_ref.methods, name) THEN Some(DictGet(class_ref.methods, name))
    ELSE IF class_ref.parent # None
    THEN get_method(cls, DictGet(cls, class_ref.parent[1]), name)
    ELSE None

has_method(cls, class_ref, name) == get_method(cls, class_ref, name) # None

OptBuiltins == {"print", "str", "int", "float", "bool", "len", "range", "type",
                "abs", "min", "max", "sum", "round"}

OptQuiet == UNCHANGED <<globals, classes, exception_stack, current_exception,
                        heap, output>>

_op_load_const ==
    /\ OptFetch(Opt_LOAD_CONST)
    /\ Go(Append(stack, constants[Operand + 1]), NextCallStack, NextPc)
    /\ UNCHANGED Static /\ OptQuiet

_op_load_global ==
    /\ OptFetch(Opt_LOAD_GLOBAL)
    /\ IF Operand >= Len(globals) THEN Fail("VMError", stack)
       ELSE Go(Append(stack, globals[Operand + 1]), NextCallStack, NextPc)
    /\ UNCHANGED Static /\ OptQuiet

\* "while len(self.globals) <= operand: self.globals.append(None)"
Extend(l, operand) ==
    [i \in 1..(IF Len(l) <= operand THEN operand + 1 ELSE Len(l)) |->
        IF i <= Len(l) THEN l[i] ELSE NilV]

_op_store_global ==
    /\ OptFetch(Opt_STORE_GLOBAL)
    /\ Advance(1, "StackUnderflowError", stack, Pop(stack))
    /\ globals' = IF stack = <<>> THEN globals
                  ELSE [Extend(globals, Operand) EXCEPT ![Operand + 1] = Top(stack)]
    /\ UNCHANGED Static
    /\ UNCHANGED <<classes, exception_stack, current_exception, heap, output>>

_op_load_local ==
    /\ OptFetch(Opt_LOAD_LOCAL)
    /\ IF call_stack = <<>> \/ Operand >= Len(Top(call_stack).locals)
       THEN Fail("VMError", stack)
       ELSE Go(Append(stack, Top(call_stack).locals[Operand + 1]),
               NextCallStack, NextPc)
    /\ UNCHANGED Static /\ OptQuiet

_op_store_local ==
    /\ OptFetch(Opt_STORE_LOCAL)
    /\ IF call_stack = <<>> THEN Fail("VMError", stack)
       ELSE IF stack = <<>> THEN Fail("StackUnderflowError", stack)
       ELSE Go(Pop(stack),
               [NextCallStack EXCEPT ![Len(call_stack)].locals =
                   [Extend(@, Operand) EXCEPT ![Operand + 1] = Top(stack)]],
               NextPc)
    /\ UNCHANGED Static /\ OptQuiet

_op_eq ==
    /\ OptFetch(Opt_EQ)
    /\ Advance(2, "StackUnderflowError", stack,
               Append(PopN(stack, 2),
                      BoolV(PyEq(stack[Len(stack) - 1], stack[Len(stack)]))))
    /\ UNCHANGED Static /\ OptQuiet

_op_not ==
    /\ OptFetch(Opt_NOT)
    /\ Advance(1, "StackUnderflowError", stack,
               Append(Pop(stack), BoolV(~Truthy(Top(stack)))))
    /\ UNCHANGED Static /\ OptQuiet

_op_jump ==
    /\ OptFetch(Opt_JUMP)
    /\ Go(stack, JumpCallStack(Operand), JumpPc(Operand))
    /\ UNCHANGED Static /\ OptQuiet

_op_jump_if_false ==
    /\ OptFetch(Opt_JUMP_IF_FALSE)
    /\ IF stack = <<>> THEN Fail("StackUnderflowError", stack)
       ELSE IF ~Truthy(Top(stack))
       THEN Go(Pop(stack), JumpCallStack(Operand), JumpPc(Operand))
       ELSE Go(Pop(stack), NextCallStack, NextPc)
    /\ UNCHANGED Static /\ OptQuiet

_op_jump_if_true ==
    /\ OptFetch(Opt_JUMP_IF_TRUE)
    /\ IF stack = <<>> THEN Fail("StackUnderflowError", stack)
       ELSE IF Truthy(Top(stack))
       THEN Go(Pop(stack), JumpCallStack(Operand), JumpPc(Operand))
       ELSE Go(Pop(stack), NextCallStack, NextPc)
    /\ UNCHANGED Static /\ OptQuiet

_op_load_func ==
    /\ OptFetch(Opt_LOAD_FUNC)
    /\ Go(Append(stack, constants[Operand + 1]), NextCallStack, NextPc)
    /\ UNCHANGED Static /\ OptQuiet

_op_dup ==
    /\ OptFetch(Opt_DUP)
    /\ Advance(1, "StackUnderflowError", stack, Append(stack, Top(stack)))
    /\ UNCHANGED Static /\ OptQuiet

\* type(obj).__name__
PyTypeName(v) ==
    CASE v.t = "nil" -> "NoneType"
      [] v.t = "obj" -> "AquaObject"
      [] v.t = "class" -> "AquaClass"
      [] OTHER -> v.t

\* isinstance(obj, type_map[expected_type]): a bool is an int as well
IsInstance(v, expected_type) ==
    \/ PyTypeName(v) = expected_type
    \/ v.t = "bool" /\ expected_type = "int"

\* _op_type_check: with no operand it returns at once, whatever the stack is.
_op_type_check ==
    /\ OptFetch(Opt_TYPE_CHECK)
    /\ IF Instr.operand = None THEN Go(stack, NextCallStack, NextPc)
       ELSE IF stack = <<>> THEN Fail("StackUnderflowError", stack)
       ELSE IF ~IsInstance(Top(stack), constants[Operand + 1].s)
       THEN Fail("TypeMismatchError", stack)
       ELSE Go(stack, NextCallStack, NextPc)
    /\ UNCHANGED Static /\ OptQuiet

_op_halt ==
    /\ OptFetch(Opt_HALT)
    /\ stack' = stack /\ call_stack' = NextCallStack /\ pc' = NextPc
    /\ status' = "halted"
    /\ UNCHANGED error
    /\ UNCHANGED Static /\ OptQuiet

\* call_function without its comparison of len(args) with len(parameters):
\* the frame is pushed whatever the argument count is.
call_function_unchecked(function, args, stk) ==
    /\ Len(call_stack) < MaxCallDepth
    /\ Go(stk,
          Append(NextCallStack, OptimizedCallFrame(function, NextPc, args)),
          NextPc)

\* call_function(function, args), entered with the operands already popped
\* (stk is what is left of the operand stack).
call_function(function, args, stk) ==
    IF Len(args) # Len(function.parameters) THEN Fail("TypeMismatchError", stk)
    ELSE /\ Len(call_stack) < MaxCallDepth
         /\ Go(stk,
               Append(NextCallStack, OptimizedCallFrame(function, NextPc, args)),
               NextPc)

\* The class-instantiation branch of _op_call, the same for a class name and
\* for a class object.
Instantiate(class_ref, args, rest) ==
    LET instance == ObjV(Len(heap) + 1)
    IN /\ \E base \in AddressBases :
              heap' = Append(heap, AquaObject(class_ref,
                                              base \o ToString(Len(heap) + 1)))
       /\ IF has_method(classes, class_ref, "__init__")
          THEN call_function(
                   DictGet(functions, get_method(classes, class_ref, "__init__")[1]),
                   <<instance>> \o args, Append(rest, instance))
          ELSE IF args # <<>> THEN Fail("VMError", rest)
          ELSE Go(Append(rest, instance), NextCallStack, NextPc)

_op_call ==
    /\ OptFetch(Opt_CALL)
    /\ LET argc == Operand
           args == LastN(stack, argc)
           func == stack[Len(stack) - argc]
           rest == PopN(stack, argc + 1)
       IN IF Len(stack) < argc + 1
          THEN Fail("StackUnderflowError", stack) /\ UNCHANGED <<heap, output>>
          ELSE IF func.t = "str"
          THEN IF DictHas(classes, func.s)
               THEN Instantiate(DictGet(classes, func.s), args, rest) /\ UNCHANGED output
               ELSE IF func.s \in OptBuiltins
               THEN LET r == builtins(func.s, args)
                    IN /\ output' = output \o r.printed
                       /\ UNCHANGED heap
                       /\ IF r.error # "none" THEN Fail("VMError", rest)
                          ELSE Go(Append(rest, r.result), NextCallStack, NextPc)
               ELSE IF DictHas(functions, func.s)
               THEN /\ call_function(DictGet(functions, func.s), args, rest)
                    /\ UNCHANGED <<heap, output>>
               ELSE Fail("FunctionNotFoundError", rest) /\ UNCHANGED <<heap, output>>
          ELSE IF func.t = "class"
          THEN Instantiate(DictGet(classes, func.name), args, rest) /\ UNCHANGED output
          ELSE Fail("TypeMismatchError", rest) /\ UNCHANGED <<heap, output>>
    /\ UNCHANGED Static
    /\ UNCHANGED <<globals, classes, exception_stack, current_exception>>

\* name.endswith('.__init__')
EndsWithInit(name) ==
    Len(name) >= 9 /\ SubSeq(name, Len(name) - 8, Len(name)) = ".__init__"

\* The body of _op_return on the operand stack stk; cs and p are the frames
\* and the main pc it finds.
DoReturn(stk, cs, p) ==
    IF stk = <<>> THEN Fail("StackUnderflowError", stk)
    ELSE IF cs # <<>>
    THEN IF /\ EndsWithInit(Top(cs).function)
            /\ Len(stk) > 1
            /\ stk[Len(stk) - 1].t = "obj"
            /\ Top(stk) = NilV
         THEN Go(Pop(stk), Pop(cs), Top(cs).return_address)
         ELSE Go(stk, Pop(cs), Top(cs).return_address)
    ELSE Go(stk, cs, p)

_op_return ==
    /\ OptFetch(Opt_RETURN)
    /\ DoReturn(stack, NextCallStack, NextPc)
    /\ UNCHANGED Static /\ OptQuiet

\* run(): "if frame.pc >= frame.function.instruction_count:
\*             self.stack.append(None); self._op_return(0); continue"
Opt_auto_return ==
    /\ phase = "run" /\ vmkind = "opt" /\ status = "running"
    /\ call_stack # <<>>
    /\ CurrentPc >= Len(CurrentInstructions)
    /\ DoReturn(Append(stack, NilV), call_stack, pc)
    /\ UNCHANGED Static /\ OptQuiet

_op_build_list ==
    /\ OptFetch(Opt_BUILD_LIST)
    /\ Advance(Operand, "StackUnderflowError", stack,
               Append(PopN(stack, Operand), ListV(LastN(stack, Operand))))
    /\ UNCHANGED Static /\ OptQuiet

_op_build_dict ==
    /\ OptFetch(Opt_BUILD_DICT)
    /\ IF Len(stack) < 2 * Operand THEN Fail("StackUnderflowError", stack)
       ELSE IF Unhashable(LastN(stack, 2 * Operand))
       THEN Fail("TypeError", PopN(stack, 2 * Operand))
       ELSE Go(Append(PopN(stack, 2 * Operand),
                      DictV(build_dict(LastN(stack, 2 * Operand), <<>>))),
               NextCallStack, NextPc)
    /\ UNCHANGED Static /\ OptQuiet

\* obj.set_attribute(attr_name, value); setattr on anything that is not an
\* AquaObject raises AttributeError for the values the programs build.
_op_set_attr ==
    /\ OptFetch(Opt_SET_ATTR)
    /\ LET attr_name == stack[Len(stack)]
           value == stack[Len(stack) - 1]
           obj == stack[Len(stack) - 2]
       IN IF Len(stack) < 3
          THEN Fail("StackUnderflowError", stack) /\ UNCHANGED heap
          ELSE IF obj.t = "obj"
          THEN /\ heap' = [heap EXCEPT ![obj.id].attributes = DictSet(@, attr_name.s, value)]
               /\ Go(PopN(stack, 3), NextCallStack, NextPc)
          ELSE Fail("TypeMismatchError", PopN(stack, 3)) /\ UNCHANGED heap
    /\ UNCHANGED Static
    /\ UNCHANGED <<globals, classes, exception_stack, current_exception, output>>

\* obj.get_attribute(attr_name): the instance's attributes, then the class's.
_op_get_attr ==
    /\ OptFetch(Opt_GET_ATTR)
    /\ LET obj == Top(stack)
           attr_name == constants[Operand + 1].s
       IN IF stack = <<>> THEN Fail("StackUnderflowError", stack)
          ELSE IF obj.t = "obj" /\ DictHas(heap[obj.id].attributes, attr_name)
          THEN Go(Append(Pop(stack), DictGet(heap[obj.id].attributes, attr_name)),
                  NextCallStack, NextPc)
          ELSE IF /\ obj.t = "obj"
                  /\ DictHas(DictGet(classes, heap[obj.id].class_ref).attributes, attr_name)
          THEN Go(Append(Pop(stack),
                         DictGet(DictGet(classes, heap[obj.id].class_ref).attributes,
                                 attr_name)),
                  NextCallStack, NextPc)
          ELSE Fail("TypeMismatchError", Pop(stack))
    /\ UNCHANGED Static /\ OptQuiet

_op_create_class ==
    /\ OptFetch(Opt_CREATE_CLASS)
    /\ LET class_name == constants[Operand + 1].s
           methods_dict == Top(stack)
       IN IF stack = <<>>
          THEN Fail("StackUnderflowError", stack) /\ UNCHANGED classes
          ELSE IF methods_dict.t # "dict"
          THEN Fail("TypeMismatchError", Pop(stack)) /\ UNCHANGED classes
          ELSE IF \E i \in 1..Len(methods_dict.d) :
                     ~DictHas(functions, methods_dict.d[i][2].s)
          THEN Fail("FunctionNotFoundError", Pop(stack)) /\ UNCHANGED classes
          ELSE /\ classes' =
                     DictSet(classes, class_name,
                             AquaClass(class_name,
                                       [i \in 1..Len(methods_dict.d) |->
                                           <<methods_dict.d[i][1],
                                             methods_dict.d[i][2].s>>]))
               /\ Go(Append(Pop(stack), ClassV(class_name)), NextCallStack, NextPc)
    /\ UNCHANGED Static
    /\ UNCHANGED <<globals, exception_stack, current_exception, heap, output>>

\* The arguments of a method call without the receiver in front.
ArgumentsOnly(obj, args) == args

\* "all_args = [obj] + args": the receiver becomes the first argument.
MethodArguments(obj, args) == <<obj>> \o args

\* "operand & 0xFFFF" and "operand >> 16"
MethodNameIndex(operand) == BitAnd(operand, 65535)
ArgCount(operand) == operand \div 65536

_op_call_method ==
    /\ OptFetch(Opt_CALL_METHOD)
    /\ LET method_name == constants[MethodNameIndex(Operand) + 1].s
           arg_count == ArgCount(Operand)
           args == LastN(stack, arg_count)
           obj == stack[Len(stack) - arg_count]
           rest == PopN(stack, arg_count + 1)
       IN IF Len(stack) < arg_count + 1 THEN Fail("StackUnderflowError", stack)
          ELSE IF obj.t # "obj" THEN Fail("TypeMismatchError", rest)
          ELSE LET method == get_method(classes,
                                        DictGet(classes, heap[obj.id].class_ref),
                                        method_name)
               IN IF method = None THEN Fail("FunctionNotFoundError", rest)
                  ELSE call_function(DictGet(functions, method[1]),
                                     MethodArguments(obj, args), rest)
    /\ UNCHANGED Static /\ OptQuiet

\* The iterator state is the Python list [obj, 0, len(obj)].
_op_get_iter ==
    /\ OptFetch(Opt_GET_ITER)
    /\ IF stack = <<>> THEN Fail("StackUnderflowError", stack)
       ELSE IF Top(stack).t = "list"
       THEN Go(Append(Pop(stack),
                      ListV(<<Top(stack), IntV(0), IntV(Len(Top(stack).l))>>)),
               NextCallStack, NextPc)
       ELSE IF Top(stack).t = "str"
       THEN Go(Append(Pop(stack),
                      ListV(<<Top(stack), IntV(0), IntV(Len(Top(stack).s))>>)),
               NextCallStack, NextPc)
       ELSE IF Top(stack).t = "dict"
       THEN Go(Append(Pop(stack),
                      ListV(<<Top(stack), IntV(0), IntV(Len(Top(stack).d))>>)),
               NextCallStack, NextPc)
       ELSE Fail("TypeMismatchError", Pop(stack))
    /\ UNCHANGED Static /\ OptQuiet

\* obj[current_index]: an element of a list or a string, the value under the
\* key current_index of a dict (KeyError when it has no such key)
_op_for_iter ==
    /\ OptFetch(Opt_FOR_ITER)
    /\ IF stack = <<>> THEN Fail("StackUnderflowError", stack)
       ELSE IF Top(stack).t # "list" \/ Len(Top(stack).l) # 3
       THEN Fail("TypeMismatchError", stack)
       ELSE LET obj == Top(stack).l[1]
                current_index == Top(stack).l[2].n
                length == Top(stack).l[3].n
            IN IF current_index >= length
               THEN Go(Pop(stack), JumpCallStack(Operand), JumpPc(Operand))
               ELSE IF obj.t = "dict"
               THEN IF \E i \in 1..Len(obj.d) : PyEq(obj.d[i][1], IntV(current_index))
                    THEN Go(Append([stack EXCEPT ![Len(stack)].l[2] =
                                                     IntV(current_index + 1)],
                                   obj.d[CHOOSE i \in 1..Len(obj.d) :
                                             PyEq(obj.d[i][1], IntV(current_index))][2]),
                            NextCallStack, NextPc)
                    ELSE Fail("KeyError", stack)
               ELSE Go(Append([stack EXCEPT ![Len(stack)].l[2] = IntV(current_index + 1)],
                              SeqItem(obj, current_index)),
                       NextCallStack, NextPc)
    /\ UNCHANGED Static /\ OptQuiet

_op_list_append ==
    /\ OptFetch(Opt_LIST_APPEND)
    /\ IF stack = <<>> THEN Fail("StackUnderflowError", stack)
       ELSE IF Len(stack) - 1 < 2 THEN Fail("StackUnderflowError", Pop(stack))
       ELSE IF stack[Len(stack) - 2].t # "list" THEN Fail("TypeMismatchError", Pop(stack))
       ELSE Go([Pop(stack) EXCEPT ![Len(stack) - 2].l = Append(@, Top(stack))],
               NextCallStack, NextPc)
    /\ UNCHANGED Static /\ OptQuiet

\* The opcodes of compiled code that _opcode_handlers has no entry for.
OptUnknown == {TRY_BEGIN, TRY_END, CATCH_BEGIN, CATCH_END, FINALLY_BEGIN,
               FINALLY_END, THROW}

\* "raise VMError(f'Unknown opcode: {opcode_value}')"
Opt_unknown_opcode ==
    /\ OptRunning
    /\ Instr.opcode \in OptUnknown
    /\ Fail("VMError", stack)
    /\ UNCHANGED Static /\ OptQuiet

OptimizedAquaVM_run ==
    \/ _op_load_const \/ _op_load_global \/ _op_store_global \/ _op_load_local
    \/ _op_store_local \/ _op_eq \/ _op_not \/ _op_jump \/ _op_jump_if_false
    \/ _op_jump_if_true \/ _op_call \/ _op_return \/ Opt_auto_return
    \/ _op_load_func \/ _op_dup \/ _op_type_check \/ _op_halt \/ _op_build_list
    \/ _op_build_dict
    \/ _op_set_attr \/ _op_get_attr \/ _op_create_class \/ _op_call_method
    \/ _op_get_iter \/ _op_for_iter \/ _op_list_append \/ Opt_unknown_opcode

\* The loop of run() has ended: AquaVM tests the main pc alone,
\* OptimizedAquaVM tests it when no frame is left.
LoopEnded ==
    /\ status = "running"
    /\ pc >= Len(instructions)
    /\ vmkind = "opt" => call_stack = <<>>

\* main(): load_bytecode, then run. An exception of load_bytecode leaves
\* AquaVM's main uncaught and takes OptimizedAquaVM's main to sys.exit(1);
\* run() returns after HALT, after the error it reported and at the end of
\* its loop, and main returns after it.
main ==
    /\ exit_status = None
    /\ \/ /\ phase = "load_error"
          /\ exit_status' = Some(1)
       \/ /\ phase = "run"
          /\ status \in {"halted", "error"} \/ LoopEnded
          /\ exit_status' = Some(0)
    /\ UNCHANGED <<prog, gen, bytecode, phase, vmkind, constants, global_vars,
                   globals, functions, instructions, classes, stack, call_stack,
                   pc, exception_stack, current_exception, heap, output, status,
                   error, call, lexer, program, blob>>

Next ==
    \/ generate
    \/ AquaVM_load_bytecode
    \/ OptimizedAquaVM_load_bytecode
    \/ run
    \/ AquaVM_execute_instruction
    \/ OptimizedAquaVM_run
    \/ main

Spec == Init /\ [][Next]_vars

-----------------------------------------------------------------------------
\* The constant pool on its own: any sequence of add_constant calls on a new
\* generator.

\* The values handed to add_constant: True == 1 and False == 0 in Python.
PoolValues ==
    {IntV(0), IntV(1), BoolV(TRUE), BoolV(FALSE), StrV("a"), StrV("b"), NilV}

\* The objects as their constructors leave them, nothing compiled or loaded.
Constructed ==
    /\ prog = 1
    /\ gen = CodeGenerator
    /\ bytecode = <<>>
    /\ vmkind = "none"
    /\ constants = <<>>
    /\ global_vars = <<>>
    /\ globals = <<>>
    /\ functions = <<>>
    /\ instructions = <<>>
    /\ classes = <<>>
    /\ stack = <<>>
    /\ call_stack = <<>>
    /\ pc = 0
    /\ exception_stack = <<>>
    /\ current_exception = None
    /\ heap = <<>>
    /\ output = <<>>
    /\ status = "idle"
    /\ error = "none"
    /\ blob = <<>>
    /\ exit_status = None

PoolInit ==
    /\ Constructed
    /\ phase = "pool"
    /\ call = None
    /\ lexer = None
    /\ program = None

\* CodeGenerator.add_constant(value)
CodeGenerator_add_constant ==
    /\ phase = "pool"
    /\ \E value \in PoolValues :
          /\ gen' = add_constant(gen, value)
          /\ call' = Some([value |-> value,
                           index |-> add_constant_index(gen, value)])
    /\ UNCHANGED <<prog, bytecode, phase, vmkind, constants, global_vars,
                   globals, functions, instructions, classes, stack, call_stack,
                   pc, exception_stack, current_exception, heap, output, status,
                   error, lexer, program, blob, exit_status>>

PoolNext == CodeGenerator_add_constant

PoolSpec == PoolInit /\ [][PoolNext]_vars

-----------------------------------------------------------------------------
\* The lexer (src/compiler/lexer.py). The source is a sequence of characters,
\* a token is its type and its text; line and column numbers are left out.

\* class TokenType(Enum): the names of its members.
TokenType ==
    {"NUMBER", "STRING", "F_STRING", "IDENTIFIER", "FUNC", "VAR", "IF", "ELSE",
     "ELIF", "FOR", "WHILE", "REPEAT", "IN", "RETURN", "BREAK", "CONTINUE", "AND",
     "OR", "NOT", "TRUE", "FALSE", "NONE", "CLASS", "SELF", "IMPORT", "FROM",
     "SWITCH", "CASE", "DEFAULT", "TRY", "CATCH", "FINALLY", "THROW", "AS", "INT",
     "FLOAT", "STR", "BOOL", "LIST", "PLUS", "MINUS", "MULTIPLY", "DIVIDE",
     "MODULO", "POWER", "EQUAL", "NOT_EQUAL", "LESS", "GREATER", "LESS_EQUAL",
     "GREATER_EQUAL", "ARROW", "ASSIGN", "LPAREN", "RPAREN", "LBRACKET",
     "RBRACKET", "LBRACE", "RBRACE", "COMMA", "COLON", "DOT", "NEWLINE", "INDENT",
     "DEDENT", "EOF", "COMMENT"}

Token(type, value) == [type |-> type, value |-> value]

keywords(value) ==
    CASE value = "func" -> "FUNC"
      [] value = "var" -> "VAR"
      [] value = "if" -> "IF"
      [] value = "else" -> "ELSE"
      [] value = "elif" -> "ELIF"
      [] value = "for" -> "FOR"
      [] value = "while" -> "WHILE"
      [] value = "repeat" -> "REPEAT"
      [] value = "in" -> "IN"
      [] value = "return" -> "RETURN"
      [] value = "break" -> "BREAK"
      [] value = "continue" -> "CONTINUE"
      [] value = "and" -> "AND"
      [] value = "or" -> "OR"
      [] value = "not" -> "NOT"
      [] value \in {"True", "true"} -> "TRUE"
      [] value \in {"False", "false"} -> "FALSE"
      [] value = "None" -> "NONE"
      [] value = "class" -> "CLASS"
      [] value = "self" -> "SELF"
      [] value = "import" -> "IMPORT"
      [] value = "from" -> "FROM"
      [] value = "switch" -> "SWITCH"
      [] value = "case" -> "CASE"
      [] value = "default" -> "DEFAULT"
      [] value = "try" -> "TRY"
      [] value = "catch" -> "CATCH"
      [] value = "finally" -> "FINALLY"
      [] value = "throw" -> "THROW"
      [] value = "as" -> "AS"
      [] value = "int" -> "INT"
      [] value = "float" -> "FLOAT"
      [] value = "str" -> "STR"
      [] value = "bool" -> "BOOL"
      [] value = "list" -> "LIST"
      [] OTHER -> "IDENTIFIER"

single_char_tokens(char) ==
    CASE char = "+" -> "PLUS"
      [] char = "-" -> "MINUS"
      [] char = "*" -> "MULTIPLY"
      [] char = "/" -> "DIVIDE"
      [] char = "%" -> "MODULO"
      [] char = "=" -> "ASSIGN"
      [] char = "<" -> "LESS"
      [] char = ">" -> "GREATER"
      [] char = "(" -> "LPAREN"
      [] char = ")" -> "RPAREN"
      [] char = "[" -> "LBRACKET"
      [] char = "]" -> "RBRACKET"
      [] char = "{" -> "LBRACE"
      [] char = "}" -> "RBRACE"
      [] char = "," -> "COMMA"
      [] char = ":" -> "COLON"
      [] char = "." -> "DOT"
      [] OTHER -> "none"

\* The operators of two characters, tested before the single ones.
double_char_tokens(char, next) ==
    CASE char = "*" /\ next = "*" -> "POWER"
      [] char = "=" /\ next = "=" -> "EQUAL"
      [] char = "!" /\ next = "=" -> "NOT_EQUAL"
      [] char = "<" /\ next = "=" -> "LESS_EQUAL"
      [] char = ">" /\ next = "=" -> "GREATER_EQUAL"
      [] char = "-" /\ next = ">" -> "ARROW"
      [] OTHER -> "none"

\* str.isalpha, str.isdigit and str.isalnum on the ASCII characters.
isalpha ==
    {"a", "b", "c", "d", "e", "f", "g", "h", "i", "j", "k", "l", "m", "n", "o",
     "p", "q", "r", "s", "t", "u", "v", "w", "x", "y", "z", "A", "B", "C", "D",
     "E", "F", "G", "H", "I", "J", "K", "L", "M", "N", "O", "P", "Q", "R", "S",
     "T", "U", "V", "W", "X", "Y", "Z"}
isdigit == {"0", "1", "2", "3", "4", "5", "6", "7", "8", "9"}
isalnum == isalpha \cup isdigit

\* ' \t'
Blank == {" ", "\t"}

\* Lexer.__init__, with the two locals of tokenize and how tokenize ended.
Lexer(source_code) ==
    [source |-> source_code, position |-> 0, indent_stack |-> <<0>>,
     tokens |-> <<>>, line_start |-> TRUE, state |-> "tokenizing"]

\* source[pos], "" where Python has None or an index past the end.
CharAt(source, pos) == IF pos < Len(source) THEN source[pos + 1] ELSE ""
current_char(lx) == CharAt(lx.source, lx.position)
peek_char(lx) == CharAt(lx.source, lx.position + 1)

\* "while current_char() in chars: advance()": where the loop stops.
RECURSIVE AdvanceWhile(_, _, _)
AdvanceWhile(source, pos, chars) ==
    IF pos < Len(source) /\ source[pos + 1] \in chars
    THEN AdvanceWhile(source, pos + 1, chars)
    ELSE pos

\* "while current_char() != stop: advance()", for the rest of a comment.
RECURSIVE AdvanceUntil(_, _, _)
AdvanceUntil(source, pos, stop) ==
    IF pos < Len(source) /\ source[pos + 1] # stop
    THEN AdvanceUntil(source, pos + 1, stop)
    ELSE pos

\* source[from:to] as one string.
RECURSIVE SourceText(_, _, _)
SourceText(source, from, to) ==
    IF from >= to THEN "" ELSE source[from + 1] \o SourceText(source, from + 1, to)

skip_whitespace(lx) ==
    [lx EXCEPT !.position = AdvanceWhile(lx.source, lx.position, Blank)]

TokenFrom(lx, type, to) ==
    [position |-> to, token |-> Token(type, SourceText(lx.source, lx.position, to))]

read_number(lx) ==
    TokenFrom(lx, "NUMBER", AdvanceWhile(lx.source, lx.position, isdigit \cup {"."}))

IdentifierToken(lx, to) ==
    [position |-> to,
     token |-> Token(keywords(SourceText(lx.source, lx.position, to)),
                     SourceText(lx.source, lx.position, to))]

read_identifier(lx) ==
    IdentifierToken(lx, AdvanceWhile(lx.source, lx.position, isalnum \cup {"_"}))

escape_chars(char) ==
    CASE char = "n" -> "\n"
      [] char = "t" -> "\t"
      [] char = "r" -> "\r"
      [] OTHER -> char

\* The loop of read_string: the characters up to the closing quote.
RECURSIVE StringBody(_, _, _, _)
StringBody(source, pos, quote_char, value) ==
    IF pos >= Len(source) \/ source[pos + 1] = quote_char
    THEN [position |-> pos, value |-> value]
    ELSE IF source[pos + 1] = "\\"
         THEN IF pos + 1 < Len(source)
              THEN StringBody(source, pos + 2, quote_char,
                              value \o escape_chars(source[pos + 2]))
              ELSE StringBody(source, pos + 1, quote_char, value)
         ELSE StringBody(source, pos + 1, quote_char, value \o source[pos + 1])

StringToken(source, body, quote_char) ==
    [position |-> IF CharAt(source, body.position) = quote_char
                  THEN body.position + 1
                  ELSE body.position,
     token |-> Token("STRING", body.value)]

read_string(lx) ==
    StringToken(lx.source,
                StringBody(lx.source, lx.position + 1, current_char(lx), ""),
                current_char(lx))

\* str.strip(): the text without the white space at its ends.
RECURSIVE strip(_)
strip(text) ==
    IF text = "" THEN ""
    ELSE IF SubSeq(text, 1, 1) \in {" ", "\t", "\n", "\r"}
    THEN strip(SubSeq(text, 2, Len(text)))
    ELSE IF SubSeq(text, Len(text), Len(text)) \in {" ", "\t", "\n", "\r"}
    THEN strip(SubSeq(text, 1, Len(text) - 1))
    ELSE text

\* One part of an f-string, {'type': ..., 'value': ...}.
FStringPart(type, value) == [type |-> type, value |-> value]

\* "if current_text: parts.append({'type': 'text', 'value': current_text})"
FlushText(parts, current_text) ==
    IF current_text # "" THEN Append(parts, FStringPart("text", current_text))
    ELSE parts

RECURSIVE FStringExpression(_, _, _, _)
\* "while self.current_char() and brace_count > 0": the text between the
\* braces, where the loop stopped and the braces still open there.
FStringExpression(source, pos, brace_count, expr) ==
    IF pos >= Len(source) \/ brace_count <= 0
    THEN [position |-> pos, expr |-> expr, brace_count |-> brace_count]
    ELSE IF source[pos + 1] = "{"
    THEN FStringExpression(source, pos + 1, brace_count + 1, expr \o "{")
    ELSE IF source[pos + 1] = "}"
    THEN FStringExpression(source, pos + 1, brace_count - 1,
                           IF brace_count - 1 > 0 THEN expr \o "}" ELSE expr)
    ELSE FStringExpression(source, pos + 1, brace_count, expr \o source[pos + 1])

RECURSIVE FStringBody(_, _, _, _, _)
\* The loop of read_f_string up to the closing quote or the end of the source.
FStringBody(source, pos, quote_char, parts, current_text) ==
    IF pos >= Len(source) \/ source[pos + 1] = quote_char
    THEN [position |-> pos, parts |-> FlushText(parts, current_text)]
    ELSE IF source[pos + 1] = "\\"
    THEN IF pos + 1 < Len(source)
         THEN FStringBody(source, pos + 2, quote_char, parts,
                          current_text \o escape_chars(source[pos + 2]))
         ELSE FStringBody(source, pos + 1, quote_char, parts, current_text)
    ELSE IF source[pos + 1] = "{"
    THEN FStringBody(source, FStringExpression(source, pos + 1, 1, "").position,
                     quote_char,
                     Append(FlushText(parts, current_text),
                            FStringPart("expression",
                                        strip(FStringExpression(source, pos + 1, 1,
                                                                "").expr))),
                     "")
    ELSE FStringBody(source, pos + 1, quote_char, parts,
                     current_text \o source[pos + 1])

\* json.dumps(parts)
PartsValue(parts) ==
    ListV([i \in 1..Len(parts) |->
              DictV(<< <<"type", StrV(parts[i].type)>>,
                       <<"value", StrV(parts[i].value)>> >>)])

FStringToken(source, body, quote_char) ==
    [position |-> IF CharAt(source, body.position) = quote_char
                  THEN body.position + 1
                  ELSE body.position,
     token |-> Token("F_STRING", dumps(PartsValue(body.parts)))]

read_f_string(lx) ==
    FStringToken(lx.source,
                 FStringBody(lx.source, lx.position + 2, peek_char(lx), <<>>, ""),
                 peek_char(lx))

\* Token(COMMENT, value.strip()): the text after the '#' without the blanks
\* around it.
RECURSIVE StripEnd(_, _, _)
StripEnd(source, from, to) ==
    IF to > from /\ source[to] \in Blank THEN StripEnd(source, from, to - 1) ELSE to

CommentToken(source, from, to) ==
    [position |-> to,
     token |-> Token("COMMENT",
                     SourceText(source, AdvanceWhile(source, from, Blank),
                                StripEnd(source, AdvanceWhile(source, from, Blank),
                                         to)))]

read_comment(lx) ==
    CommentToken(lx.source, lx.position + 1,
                 AdvanceUntil(lx.source, lx.position + 1, "\n"))

\* The width handle_indentation counts from the line's first character: a
\* space is 1, a tab is 4.
RECURSIVE indent_level(_, _)
indent_level(source, pos) ==
    IF pos < Len(source) /\ source[pos + 1] \in Blank
    THEN (IF source[pos + 1] = " " THEN 1 ELSE 4) + indent_level(source, pos + 1)
    ELSE 0

\* "while indent_stack and indent_stack[-1] > indent_level: pop()"
RECURSIVE PopWider(_, _)
PopWider(indent_stack, level) ==
    IF indent_stack # <<>> /\ Top(indent_stack) > level
    THEN PopWider(Pop(indent_stack), level)
    ELSE indent_stack

\* n tokens of one type.
RECURSIVE Repeat(_, _)
Repeat(token, n) == IF n <= 0 THEN <<>> ELSE <<token>> \o Repeat(token, n - 1)

\* A lexer that pops one level for a narrower line, however narrow.
handle_indentation_one_pop(lx, level) ==
    IF level > Top(lx.indent_stack)
    THEN [lx EXCEPT !.indent_stack = Append(@, level),
                    !.tokens = Append(@, Token("INDENT", ""))]
    ELSE IF level < Top(lx.indent_stack)
         THEN [lx EXCEPT !.indent_stack = Pop(@),
                         !.tokens = Append(@, Token("DEDENT", ""))]
         ELSE lx

\* handle_indentation for a line of the given width; the tokens it returns
\* are the ones tokenize appends.
handle_indentation(lx, level) ==
    IF level > Top(lx.indent_stack)
    THEN [lx EXCEPT !.indent_stack = Append(@, level),
                    !.tokens = Append(@, Token("INDENT", ""))]
    ELSE IF level < Top(lx.indent_stack)
         THEN [lx EXCEPT !.indent_stack = PopWider(@, level),
                         !.tokens = @ \o Repeat(Token("DEDENT", ""),
                                                Len(lx.indent_stack)
                                                - Len(PopWider(lx.indent_stack,
                                                               level)))]
         ELSE lx

\* The line that starts at the position has something other than blanks and
\* a comment on it.
HasCode(lx) ==
    CharAt(lx.source, AdvanceWhile(lx.source, lx.position, Blank))
        \notin {"", "\n", "#"}

\* The branch of tokenize that reads one token at the current character.
\* "char == 'f' and self.peek_char() in '"\''": at the last character of the
\* source peek_char() is None, and `None in <str>` raises TypeError.
PeekIsNone(lx) == lx.position + 1 >= Len(lx.source)

TokenKind(lx) ==
    CASE current_char(lx) \in isdigit -> "number"
      [] current_char(lx) \in {"\"", "'"} -> "string"
      [] current_char(lx) = "f" /\ PeekIsNone(lx) -> "TypeError"
      [] current_char(lx) = "f" /\ ~PeekIsNone(lx) /\ peek_char(lx) \in {"\"", "'"} ->
            "f_string"
      [] current_char(lx) \in isalpha \cup {"_"}
         /\ ~(current_char(lx) = "f" /\ (PeekIsNone(lx) \/ peek_char(lx) \in {"\"", "'"})) ->
            "identifier"
      [] double_char_tokens(current_char(lx), peek_char(lx)) # "none" -> "double"
      [] single_char_tokens(current_char(lx)) # "none" -> "single"
      [] OTHER -> "unknown"

ReadToken(lx) ==
    CASE TokenKind(lx) = "number" -> read_number(lx)
      [] TokenKind(lx) = "string" -> read_string(lx)
      [] TokenKind(lx) = "f_string" -> read_f_string(lx)
      [] TokenKind(lx) = "identifier" -> read_identifier(lx)
      [] TokenKind(lx) = "double" ->
            [position |-> lx.position + 2,
             token |-> Token(double_char_tokens(current_char(lx), peek_char(lx)),
                             current_char(lx) \o peek_char(lx))]
      [] OTHER ->
            [position |-> lx.position + 1,
             token |-> Token(single_char_tokens(current_char(lx)),
                             current_char(lx))]

AppendToken(lx, read) ==
    [lx EXCEPT !.position = read.position, !.tokens = Append(@, read.token)]

\* The lines the sources are made of.
LineTexts ==
    {<<"a">>,
     <<" ", "a">>,
     <<" ", " ", "a">>,
     <<"\t", "a">>,
     <<>>,
     <<" ">>,
     <<" ", "#", " ", "c">>,
     <<"w", "h", "i", "l", "e", " ", "a", " ", "{", " ", "a", " ", "}">>,
     <<"w", "h", "i", "l", "e", " ", "a", ":">>,
     <<"a", "=", "=", "1", ".", "5", "'", "s", "'">>,
     <<"d", "e", "f", " ", "T", "r", "u", "e">>,
     <<"1", ".", "2", ".", "3">>,
     <<"'", "s">>,
     <<"f", "\"", "a", "{", "b", "}", "\"">>,
     <<"f", "\"", "{", "a">>,
     <<"f">>,
     <<"$">>}

\* The most lines a source has.
MaxLines == 3

RECURSIVE JoinLines(_)
JoinLines(lines) ==
    IF Len(lines) = 1 THEN lines[1]
    ELSE lines[1] \o <<"\n">> \o JoinLines(Tail(lines))

Sources ==
    {JoinLines(lines) : lines \in UNION {[1..n -> LineTexts] : n \in 1..MaxLines}}

LexInit ==
    /\ Constructed
    /\ phase = "lex"
    /\ call = None
    /\ lexer \in {Some(Lexer(source_code)) : source_code \in Sources}
    /\ program = None

Tokenizing == phase = "lex" /\ lexer[1].state = "tokenizing"
InLoop == Tokenizing /\ lexer[1].position < Len(lexer[1].source)

LexQuiet ==
    UNCHANGED <<prog, gen, bytecode, phase, vmkind, constants, global_vars,
                globals, functions, instructions, classes, stack, call_stack,
                pc, exception_stack, current_exception, heap, output, status,
                error, call, program, blob, exit_status>>

\* "if char == '\n'"
tokenize_newline ==
    /\ InLoop
    /\ current_char(lexer[1]) = "\n"
    /\ lexer' = Some([lexer[1] EXCEPT !.tokens = Append(@, Token("NEWLINE", "\n")),
                                      !.position = @ + 1,
                                      !.line_start = TRUE])
    /\ LexQuiet

\* "if line_start": the indentation of a line with code on it, then the
\* blanks at its start.
tokenize_line_start ==
    /\ InLoop
    /\ current_char(lexer[1]) # "\n"
    /\ lexer[1].line_start
    /\ lexer' = Some([skip_whitespace(
                          IF HasCode(lexer[1])
                          THEN handle_indentation(
                                   lexer[1],
                                   indent_level(lexer[1].source, lexer[1].position))
                          ELSE lexer[1])
                      EXCEPT !.line_start = FALSE])
    /\ LexQuiet

InLine == InLoop /\ current_char(lexer[1]) # "\n" /\ ~lexer[1].line_start

\* "if char in ' \t'"
tokenize_whitespace ==
    /\ InLine
    /\ current_char(lexer[1]) \in Blank
    /\ lexer' = Some(skip_whitespace(lexer[1]))
    /\ LexQuiet

\* "if char == '#'"
tokenize_comment ==
    /\ InLine
    /\ current_char(lexer[1]) = "#"
    /\ lexer' = Some(AppendToken(lexer[1], read_comment(lexer[1])))
    /\ LexQuiet

\* A number, a string, an identifier or keyword, or an operator.
tokenize_token ==
    /\ InLine
    /\ current_char(lexer[1]) \notin Blank \cup {"#"}
    /\ TokenKind(lexer[1]) \notin {"unknown", "TypeError"}
    /\ lexer' = Some(AppendToken(lexer[1], ReadToken(lexer[1])))
    /\ LexQuiet

\* The f-string test on an 'f' that is the last character of the source:
\* "TypeError: 'in <string>' requires string as left operand, not NoneType"
tokenize_f_string_check ==
    /\ InLine
    /\ current_char(lexer[1]) \notin Blank \cup {"#"}
    /\ TokenKind(lexer[1]) = "TypeError"
    /\ lexer' = Some([lexer[1] EXCEPT !.state = "TypeError"])
    /\ LexQuiet

\* "raise SyntaxError(Unexpected character ...)"
tokenize_unexpected ==
    /\ InLine
    /\ current_char(lexer[1]) \notin Blank \cup {"#"}
    /\ TokenKind(lexer[1]) = "unknown"
    /\ lexer' = Some([lexer[1] EXCEPT !.state = "SyntaxError"])
    /\ LexQuiet

\* After the loop: a DEDENT for every level still open, then EOF.
tokenize_end ==
    /\ Tokenizing
    /\ lexer[1].position >= Len(lexer[1].source)
    /\ lexer' = Some([lexer[1] EXCEPT
                          !.indent_stack = <<@[1]>>,
                          !.tokens = @ \o Repeat(Token("DEDENT", ""),
                                                 Len(lexer[1].indent_stack) - 1)
                                       \o <<Token("EOF", "")>>,
                          !.state = "done"])
    /\ LexQuiet

\* The parser (src/compiler/parser.py): what Parser.parse returns or raises.
Program(statements) == [raised |-> "none", statements |-> statements]
Raised(exception) == [raised |-> exception, statements |-> <<>>]

\* parse_statement begins with "if self.match(TokenType.AT)": the attribute
\* is looked up before match is called, and an Enum without that member
\* raises AttributeError. The statement parsers behind it are not modelled.
parse_statement(tokens, position) ==
    IF "AT" \notin TokenType
    THEN Raised("AttributeError")
    ELSE Raised("NotModelled")

\* Parser.parse: newlines and comments are skipped, anything else before
\* EOF is a statement.
RECURSIVE parse(_, _)
parse(tokens, position) ==
    IF position >= Len(tokens) \/ tokens[position + 1].type = "EOF"
    THEN Program(<<>>)
    ELSE IF tokens[position + 1].type \in {"NEWLINE", "COMMENT"}
         THEN parse(tokens, position + 1)
         ELSE parse_statement(tokens, position)

\* Parser(lexer.tokenize()).parse()
Parser_parse ==
    /\ phase = "lex"
    /\ lexer[1].state = "done"
    /\ program = None
    /\ program' = Some(parse(lexer[1].tokens, 0))
    /\ UNCHANGED <<prog, gen, bytecode, phase, vmkind, constants, global_vars,
                   globals, functions, instructions, classes, stack, call_stack,
                   pc, exception_stack, current_exception, heap, output, status,
                   error, call, lexer, blob, exit_status>>

FrontNext ==
    \/ tokenize_newline
    \/ tokenize_line_start
    \/ tokenize_whitespace
    \/ tokenize_comment
    \/ tokenize_token
    \/ tokenize_f_string_check
    \/ tokenize_unexpected
    \/ tokenize_end
    \/ Parser_parse

FrontSpec == LexInit /\ [][FrontNext]_vars

-----------------------------------------------------------------------------
(* Properties of the pipeline, one block per claim.                         *)

\* The four sections of the container as load_bytecode reads them: each one
\* starts where the one before it ended, the first after the 6 header bytes.
ReadSections ==
    LET c == Section(bytecode, 6)
        g == Section(bytecode, c.offset)
        f == Section(bytecode, g.offset)
        m == Section(bytecode, f.offset)
    IN <<c, g, f, m>>

\* C1: whatever the generator compiled, load_bytecode of the serialized bytes
\* leaves a constant pool, a global-name table, a function table (parameters,
\* local_vars and instructions of every function) and a main instruction list
\* equal to the generator's; the four sections are read back to back, each
\* holding the bytes written for it, and the last one ends the file.
C1_RoundTrip ==
    phase = "loaded" =>
        /\ constants = gen.constants
        /\ global_vars = gen.global_vars
        /\ functions = gen.functions
        /\ instructions = gen.instructions
        /\ ReadSections[1].data = constants_data(gen)
        /\ ReadSections[2].data = globals_data(gen)
        /\ ReadSections[3].data = functions_bytes(gen)
        /\ ReadSections[4].data = main_data(gen)
        /\ ReadSections[4].offset = Len(bytecode)

\* C1 witness: a loaded unit with a function that has parameters and local
\* variables, constants, globals and operands both present and missing.
C1_Loaded ==
    /\ phase = "loaded"
    /\ vmkind = "opt"
    /\ Len(constants) >= 2
    /\ global_vars # <<>>
    /\ \E i \in 1..Len(functions) :
          /\ functions[i][2].parameters # <<>>
          /\ Len(functions[i][2].local_vars) > Len(functions[i][2].parameters)
          /\ functions[i][2].instructions # <<>>
    /\ \E i \in 1..Len(instructions) : instructions[i].operand = None
    /\ \E i \in 1..Len(instructions) : instructions[i].operand # None

\* Every instruction list the generator holds: the main list and each body.
EmittedLists ==
    {gen.instructions} \cup {gen.functions[i][2].instructions :
                                i \in 1..Len(gen.functions)}

\* C2: in every instruction list the generator emitted, the operand of every
\* JUMP, JUMP_IF_FALSE, JUMP_IF_TRUE and FOR_ITER is an index of that list.
C2_JumpsInRange ==
    phase # "compile" =>
        \A l \in EmittedLists :
            \A i \in 1..Len(l) :
                l[i].opcode \in {JUMP, JUMP_IF_FALSE, JUMP_IF_TRUE, FOR_ITER} =>
                    /\ l[i].operand # None
                    /\ l[i].operand[1] >= 0
                    /\ l[i].operand[1] < Len(l)

\* The try statements of an instruction list, read off its layout
\* TRY_BEGIN body TRY_END CATCH_BEGIN ... (positions counted from 0).
RECURSIVE MatchingTryEnd(_, _, _)
\* The TRY_END that closes the try body entered at position i, or -1.
MatchingTryEnd(instrs, i, depth) ==
    IF i >= Len(instrs) THEN -1
    ELSE IF instrs[i + 1].opcode = TRY_BEGIN
    THEN MatchingTryEnd(instrs, i + 1, depth + 1)
    ELSE IF instrs[i + 1].opcode = TRY_END
    THEN IF depth = 0 THEN i ELSE MatchingTryEnd(instrs, i + 1, depth - 1)
    ELSE MatchingTryEnd(instrs, i + 1, depth)

\* The TRY_BEGINs whose try body holds position p.
EnclosingTries(instrs, p) ==
    {q \in 0..(p - 1) : /\ instrs[q + 1].opcode = TRY_BEGIN
                        /\ MatchingTryEnd(instrs, q + 1, 0) > p}

\* The innermost of them, and the position right after its TRY_END, where
\* its first catch clause starts.
InnermostTry(instrs, p) ==
    CHOOSE q \in EnclosingTries(instrs, p) :
        \A r \in EnclosingTries(instrs, p) : r <= q
OwnCatch(instrs, p) == MatchingTryEnd(instrs, InnermostTry(instrs, p) + 1, 0) + 1

\* Position p lies in a try body whose statement starts with a catch-all.
InCatchAllTry(instrs, p) ==
    /\ p >= 0 /\ p < Len(instrs)
    /\ EnclosingTries(instrs, p) # {}
    /\ OwnCatch(instrs, p) < Len(instrs)
    /\ instrs[OwnCatch(instrs, p) + 1].opcode = CATCH_BEGIN
    /\ instrs[OwnCatch(instrs, p) + 1].operand = None

\* C3: a THROW executed in the body of a try statement that has a catch-all
\* clause takes control to that statement's own catch block, with the same
\* frames on the call stack, and the VM does not stop with an error.
C3_ThrowReachesOwnCatch ==
    [][(/\ AquaFetch(THROW)
        /\ stack # <<>>
        /\ InCatchAllTry(CurrentInstructions, CurrentPc))
       => /\ status' = "running"
          /\ Len(call_stack') = Len(call_stack)
          /\ CurrentPc' = OwnCatch(CurrentInstructions, CurrentPc)]_vars

\* The callee and the argument count of the CALL or CALL_METHOD being fetched.
CallArgc == IF Instr.opcode = CALL_METHOD THEN Operand \div 65536 ELSE Operand
Callee == stack[Len(stack) - CallArgc]
CallArgument(i) == stack[Len(stack) - CallArgc + i]

\* The optimized VM is about to dispatch CALL on the name of a user function:
\* the name is neither a class nor a builtin, which it looks up first.
OptCallsUserFunction ==
    /\ OptFetch(Opt_CALL)
    /\ Len(stack) >= CallArgc + 1
    /\ Callee.t = "str"
    /\ ~DictHas(classes, Callee.s)
    /\ Callee.s \notin OptBuiltins
    /\ DictHas(functions, Callee.s)

\* C4: CALL argc on a user function with argc parameters removes the callee
\* and the arguments from the operand stack and pushes a frame whose slots
\* 0..argc-1 hold the arguments in the order they were pushed, every other
\* slot being nil; with any other argument count the VM stops with an error
\* and pushes no frame.
C4_CallBindsArguments ==
    [][OptCallsUserFunction =>
          IF Len(DictGet(functions, Callee.s).parameters) = CallArgc
          THEN /\ status' = "running"
               /\ stack' = PopN(stack, CallArgc + 1)
               /\ Len(call_stack') = Len(call_stack) + 1
               /\ Top(call_stack').function = Callee.s
               /\ Top(call_stack').pc = 0
               /\ Len(Top(call_stack').locals) >= CallArgc
               /\ \A i \in 1..Len(Top(call_stack').locals) :
                     Top(call_stack').locals[i] =
                         IF i <= CallArgc THEN CallArgument(i) ELSE NilV
          ELSE /\ status' = "error"
               /\ Len(call_stack') = Len(call_stack)]_vars

\* C4 witness: add(1, 2) has just been entered: a and b hold 1 and 2 and the
\* slots after them are nil.
C4_FrameEntered ==
    /\ vmkind = "opt" /\ status = "running"
    /\ call_stack # <<>>
    /\ Top(call_stack).function = "add"
    /\ Top(call_stack).pc = 0
    /\ Len(Top(call_stack).locals) > 2
    /\ Top(call_stack).locals[1] = IntV(1)
    /\ Top(call_stack).locals[2] = IntV(2)
    /\ Top(call_stack).locals[3] = NilV
    /\ stack = <<>>

\* A "." in a function's name: the generator names a method Class.method.
IsMethodName(name) == \E i \in 1..Len(name) : Ch(name, i) = "."

\* C5: when a user function entered by CALL returns, the operand stack is as
\* deep as it was before the CALL minus argc (callee and arguments replaced
\* by the one return value), and the caller resumes at the instruction after
\* the CALL, in its own instruction list.
C5_ReturnRestoresDepth ==
    [][(/\ OptFetch(Opt_RETURN)
        /\ stack # <<>>
        /\ call_stack # <<>>
        /\ ~IsMethodName(Top(call_stack).function))
       => /\ Len(stack') =
                Top(call_stack).depth
                    - Len(DictGet(functions, Top(call_stack).function).parameters)
          /\ call_stack' = Pop(call_stack)
          /\ CurrentPc' = Top(call_stack).resume]_vars

\* C6: once __init__ returns nil, exactly the new instance stands on the
\* operand stack in place of the class callee and its arguments.
C6_InitLeavesInstance ==
    [][(/\ OptFetch(Opt_RETURN)
        /\ call_stack # <<>>
        /\ EndsWithInit(Top(call_stack).function)
        /\ stack # <<>>
        /\ Top(stack) = NilV)
       => /\ Len(stack') =
                Top(call_stack).depth
                    - (Len(DictGet(functions, Top(call_stack).function).parameters) - 1)
          /\ Top(stack') = Top(call_stack).locals[1]
          /\ Top(stack').t = "obj"]_vars

RECURSIVE ParentChain(_, _)
\* A class and its ancestors, nearest first.
ParentChain(cls, name) ==
    <<name>> \o (IF DictGet(cls, name).parent # None
                 THEN ParentChain(cls, DictGet(cls, name).parent[1])
                 ELSE <<>>)

\* The function a method name stands for in the nearest class of the chain
\* that defines it: Some(function name), or None.
NearestDefinition(cls, name, method_name) ==
    LET chain == ParentChain(cls, name)
        defining == {i \in 1..Len(chain) :
                        DictHas(DictGet(cls, chain[i]).methods, method_name)}
    IN IF defining = {} THEN None
       ELSE Some(DictGet(DictGet(cls, chain[CHOOSE i \in defining :
                                                \A j \in defining : i <= j]).methods,
                         method_name))

\* The optimized VM is about to dispatch CALL_METHOD on an instance.
OptCallsMethod ==
    /\ OptFetch(Opt_CALL_METHOD)
    /\ Len(stack) >= CallArgc + 1
    /\ Callee.t = "obj"

\* The method the CALL_METHOD being fetched names, looked up from the class
\* of the receiver.
CalledMethod ==
    NearestDefinition(classes, heap[Callee.id].class_ref,
                      constants[(Operand % 65536) + 1].s)

CallsNamedFunction ==
    /\ \/ AquaFetch(CALL)
       \/ OptFetch(Opt_CALL)
    /\ Len(stack) >= CallArgc + 1
    /\ Callee.t = "str"
    /\ DictHas(functions, Callee.s)
    /\ Len(DictGet(functions, Callee.s).parameters) = CallArgc

\* C8: CALL looks a string callee up in the function table first, so a name
\* that the function table holds gets a new frame for that user function,
\* also when a builtin has the same name.
C8_UserFunctionFirst ==
    [][CallsNamedFunction =>
          /\ Len(call_stack') = Len(call_stack) + 1
          /\ Top(call_stack').function = Callee.s]_vars

\* C9: a THROW in a function called from the body of a try statement of the
\* main program that has a catch-all clause, the function itself having no
\* try around the THROW, pops the function's frame and starts that catch
\* block in the main program; the function does not go on after its THROW.
C9_ThrowUnwindsFrames ==
    [][(/\ AquaFetch(THROW)
        /\ stack # <<>>
        /\ Len(call_stack) = 1
        /\ EnclosingTries(CurrentInstructions, CurrentPc) = {}
        /\ InCatchAllTry(instructions, pc - 1))
       => /\ status' = "running"
          /\ call_stack' = <<>>
          /\ pc' = OwnCatch(instructions, pc - 1)]_vars

\* Every instruction list the VM loaded: the main list and each body.
LoadedLists ==
    {instructions} \cup {functions[i][2].instructions : i \in 1..Len(functions)}

\* No catch clause of the loaded program takes an exception of this type:
\* each one declares a type, and a different one.
NoCatchTakes(type) ==
    \A l \in LoadedLists :
        \A i \in 1..Len(l) :
            l[i].opcode = CATCH_BEGIN =>
                /\ l[i].operand # None
                /\ constants[l[i].operand[1] + 1] # StrV(type)

\* C10: an exception that no catch clause matches is fatal: the VM never
\* halts normally with such an exception pending, that is, it never runs on
\* behind the try statement with the exception dropped.
C10_UncaughtIsFatal ==
    (/\ vmkind = "aqua"
     /\ current_exception # None
     /\ NoCatchTakes(current_exception[1].type))
    => status # "halted"


\* The finally block of a try statement, read off the layout
\* TRY_END (CATCH_BEGIN ... CATCH_END)* FINALLY_BEGIN ... FINALLY_END.
RECURSIVE MatchingCatchEnd(_, _, _)
\* The CATCH_END that closes the catch body entered at position i, or -1.
MatchingCatchEnd(instrs, i, depth) ==
    IF i >= Len(instrs) THEN -1
    ELSE IF instrs[i + 1].opcode = CATCH_BEGIN
    THEN MatchingCatchEnd(instrs, i + 1, depth + 1)
    ELSE IF instrs[i + 1].opcode = CATCH_END
    THEN IF depth = 0 THEN i ELSE MatchingCatchEnd(instrs, i + 1, depth - 1)
    ELSE MatchingCatchEnd(instrs, i + 1, depth)

RECURSIVE AfterCatchClauses(_, _)
\* The position behind the catch clauses that start at position q.
AfterCatchClauses(instrs, q) ==
    IF q >= Len(instrs) \/ instrs[q + 1].opcode # CATCH_BEGIN THEN q
    ELSE IF MatchingCatchEnd(instrs, q + 1, 0) = -1 THEN Len(instrs)
    ELSE AfterCatchClauses(instrs, MatchingCatchEnd(instrs, q + 1, 0) + 1)

\* The FINALLY_BEGIN of the try statement whose TRY_END is at position p.
OwnFinally(instrs, p) == AfterCatchClauses(instrs, p + 1)
HasFinally(instrs, p) ==
    /\ OwnFinally(instrs, p) < Len(instrs)
    /\ instrs[OwnFinally(instrs, p) + 1].opcode = FINALLY_BEGIN

\* C11: when the body of a try statement that has a finally block completes
\* without an exception, control goes on to that finally block (past the catch
\* clauses only), whether or not the statement has catch clauses.
C11_FinallyAfterTry ==
    [][(/\ AquaFetch(TRY_END)
        /\ current_exception = None
        /\ HasFinally(CurrentInstructions, CurrentPc))
       => CurrentPc' <= OwnFinally(CurrentInstructions, CurrentPc)]_vars

\* The top-level initialisations a main list starts with: pairs of a
\* LOAD_CONST or LOAD_FUNC and a STORE_GLOBAL, up to the first other
\* instruction (so before any call or jump).
RECURSIVE InitPrefixEnd(_, _)
InitPrefixEnd(instrs, p) ==
    IF /\ p + 2 <= Len(instrs)
       /\ instrs[p + 1].opcode \in {Opt_LOAD_CONST, Opt_LOAD_FUNC}
       /\ instrs[p + 2].opcode = Opt_STORE_GLOBAL
    THEN InitPrefixEnd(instrs, p + 2)
    ELSE p
TopLevelInits(instrs) ==
    {p \in 1..(InitPrefixEnd(instrs, 0) - 1) :
        /\ instrs[p].opcode \in {Opt_LOAD_CONST, Opt_LOAD_FUNC}
        /\ instrs[p + 1].opcode = Opt_STORE_GLOBAL}
\* The last of them for each global.
LastInits(instrs) ==
    {p \in TopLevelInits(instrs) :
        \A q \in TopLevelInits(instrs) :
            instrs[q + 1].operand = instrs[p + 1].operand => q <= p}

\* C12: between load_bytecode and run of OptimizedAquaVM, every global that the
\* main list assigns a constant or a function before its first call or jump
\* holds that value, the program counter is 0 and the operand stack is empty.
C12_GlobalsInitialised ==
    (vmkind = "opt" /\ phase = "loaded")
    => /\ pc = 0
       /\ stack = <<>>
       /\ \A p \in LastInits(instructions) :
             globals[instructions[p + 1].operand[1] + 1]
                = constants[instructions[p].operand[1] + 1]

\* The generator g while it compiles the body of a function with these
\* parameters ("self.current_function = function" of compile_function_def).
InFunction(g, parameters) ==
    [g EXCEPT !.current_function = Some(NewFunction("fn", parameters))]

\* The statements that write the name n.
WritesOf(n) ==
    << Assignment(n, Num(1)),
       VarDeclaration(n, "int", None),
       ForLoop(n, ListLiteral(<<>>), <<>>),
       TryStatement(<<>>, <<CatchAll(n, <<>>)>>, <<>>),
       FunctionDef(n, <<>>, <<>>),
       ClassDef(n, <<>>) >>

\* From position `from` on, the list stores only with STORE_GLOBAL, and it
\* stores to the global index idx.
StoresGlobal(instrs, from, idx) ==
    /\ \A i \in from..Len(instrs) : instrs[i].opcode # STORE_LOCAL
    /\ \E i \in from..Len(instrs) :
          instrs[i].opcode = STORE_GLOBAL /\ instrs[i].operand = Some(idx)

\* C13: with the global-name table of any compiled program, each statement
\* that writes a name of the table inside a function body is compiled to
\* STORE_GLOBAL with the name's global index, and each such statement at top
\* level, for a known or a new name, is compiled to STORE_GLOBAL.
C13_KnownGlobalWrites ==
    /\ \A k \in 1..Len(gen.global_vars) : \A w \in 1..Len(WritesOf("w")) :
          StoresGlobal(
              get_current_instructions(
                  compile_statement(InFunction(gen, <<>>),
                                    WritesOf(gen.global_vars[k][1])[w])),
              1, gen.global_vars[k][2])
    /\ \A w \in 1..Len(WritesOf("w")) :
          StoresGlobal(compile_statement(gen, WritesOf("fresh_name")[w]).instructions,
                       Len(gen.instructions) + 1, Len(gen.global_vars))

\* The list ends with a store and a load that address the same slot of the
\* same storage; with `local` they address the local slots.
SameStorage(instrs, local) ==
    /\ Len(instrs) >= 2
    /\ \/ /\ instrs[Len(instrs) - 1].opcode = STORE_LOCAL
          /\ instrs[Len(instrs)].opcode = LOAD_LOCAL
       \/ /\ ~local
          /\ instrs[Len(instrs) - 1].opcode = STORE_GLOBAL
          /\ instrs[Len(instrs)].opcode = LOAD_GLOBAL
    /\ instrs[Len(instrs) - 1].operand = instrs[Len(instrs)].operand

\* "n = 1" followed by a read of n, compiled in a function with these parameters.
StoreThenLoad(g, parameters, n) ==
    get_current_instructions(
        compile_expression(compile_statement(InFunction(g, parameters),
                                             Assignment(n, Num(1))),
                           Identifier(n)))

\* C14: in a function body a store to a name and the load of the same name that
\* follows it address the same storage, the local slot when the name is a
\* parameter; checked with the global-name table of any compiled program, for
\* each of its names and for a new name.
C14_LoadSeesStore ==
    /\ \A k \in 1..Len(gen.global_vars) :
          /\ SameStorage(StoreThenLoad(gen, <<>>, gen.global_vars[k][1]), FALSE)
          /\ SameStorage(StoreThenLoad(gen, <<gen.global_vars[k][1]>>,
                                       gen.global_vars[k][1]), TRUE)
    /\ SameStorage(StoreThenLoad(gen, <<>>, "fresh_name"), FALSE)
    /\ SameStorage(StoreThenLoad(gen, <<"fresh_name">>, "fresh_name"), TRUE)


-----------------------------------------------------------------------------
\* C15

\* No two entries of the pool are equal.
NoEqualEntries(cs) ==
    \A i, j \in 1..Len(cs) : PyEq(cs[i], cs[j]) => i = j

\* What one add_constant call may do to the pool, given what it returned.
PoolCallContract(before, after, value, index) ==
    /\ index < Len(after)
    /\ PyEq(after[index + 1], value)
    /\ Len(after) >= Len(before)
    /\ \A i \in 1..Len(before) : after[i] = before[i]
    /\ IF \E i \in 1..Len(before) : PyEq(before[i], value)
       THEN after = before
       ELSE after = Append(before, value)

\* C15: after any sequence of add_constant calls the pool holds no two equal
\* entries; each call returns the index of an entry equal to its argument,
\* appends only when no equal entry exists, and leaves the entries already in
\* the pool at their indices.
C15_PoolDeduplicated ==
    /\ [](phase = "pool" => NoEqualEntries(gen.constants))
    /\ [][phase = "pool"
          => PoolCallContract(gen.constants, gen'.constants, call'[1].value,
                              call'[1].index)]_vars

\* A call with True found the entry 1 in a pool of three and appended nothing.
C15_FoundEqualEntry ==
    /\ phase = "pool"
    /\ call # None
    /\ call[1].value = BoolV(TRUE)
    /\ Len(gen.constants) = 3
    /\ gen.constants[call[1].index + 1] = IntV(1)


-----------------------------------------------------------------------------
\* C16

CountType(tokens, type) ==
    Cardinality({i \in 1..Len(tokens) : tokens[i].type = type})

\* No prefix of the token list has more DEDENT than INDENT.
NoPrefixOverDedented(tokens) ==
    \A n \in 0..Len(tokens) :
        CountType(SubSeq(tokens, 1, n), "DEDENT")
            <= CountType(SubSeq(tokens, 1, n), "INDENT")

StrictlyIncreasingFromZero(indent_stack) ==
    /\ Len(indent_stack) >= 1
    /\ indent_stack[1] = 0
    /\ \A i \in 1..(Len(indent_stack) - 1) : indent_stack[i] < indent_stack[i + 1]

\* The blanks a line starts with, and their width: a space 1, a tab 4.
LeadingBlanks(source, pos) ==
    {i \in (pos + 1)..Len(source) : \A j \in (pos + 1)..i : source[j] \in Blank}

LineWidth(source, pos) ==
    Cardinality({i \in LeadingBlanks(source, pos) : source[i] = " "})
    + 4 * Cardinality({i \in LeadingBlanks(source, pos) : source[i] = "\t"})

\* The line at pos is blank or holds a comment only.
BlankOrComment(source, pos) ==
    CharAt(source, pos + Cardinality(LeadingBlanks(source, pos))) \in {"", "\n", "#"}

LevelsUpTo(indent_stack, width) ==
    LET NotWider(level) == level <= width
    IN SelectSeq(indent_stack, NotWider)

\* What the start of a line may do to the stack and the tokens.
LineStartContract(before, after, width) ==
    IF BlankOrComment(before.source, before.position)
       \/ width = Top(before.indent_stack)
    THEN after.indent_stack = before.indent_stack /\ after.tokens = before.tokens
    ELSE IF width > Top(before.indent_stack)
         THEN /\ after.indent_stack = Append(before.indent_stack, width)
              /\ after.tokens = Append(before.tokens, Token("INDENT", ""))
         ELSE /\ after.indent_stack = LevelsUpTo(before.indent_stack, width)
              /\ after.tokens
                     = before.tokens
                       \o Repeat(Token("DEDENT", ""),
                                 Len(before.indent_stack) - Len(after.indent_stack))

\* What the end of the input appends.
EndContract(before, after) ==
    after.tokens = before.tokens
                   \o Repeat(Token("DEDENT", ""), Len(before.indent_stack) - 1)
                   \o <<Token("EOF", "")>>

\* Any other step leaves the stack alone and adds no INDENT, DEDENT or EOF.
InsideLineContract(before, after) ==
    /\ after.indent_stack = before.indent_stack
    /\ \A type \in {"INDENT", "DEDENT", "EOF"} :
           CountType(after.tokens, type) = CountType(before.tokens, type)

TokenizeStepContract(before, after) ==
    IF after.state = "done"
    THEN EndContract(before, after)
    ELSE IF before.line_start /\ CharAt(before.source, before.position) # "\n"
         THEN LineStartContract(before, after,
                                LineWidth(before.source, before.position))
         ELSE InsideLineContract(before, after)

\* C16: the indentation stack is strictly increasing from a bottom 0 at all
\* times and no prefix of the tokens has more DEDENT than INDENT; a line wider
\* than the top pushes its width and emits one INDENT, a narrower line pops
\* every wider level and emits one DEDENT for each, a blank or comment-only
\* line does neither; an accepted source ends with the DEDENTs of the levels
\* still open and one EOF, with as many DEDENT as INDENT.
C16_IndentationBalanced ==
    /\ [](phase = "lex"
          => /\ StrictlyIncreasingFromZero(lexer[1].indent_stack)
             /\ NoPrefixOverDedented(lexer[1].tokens)
             /\ lexer[1].state = "done"
                => /\ CountType(lexer[1].tokens, "DEDENT")
                      = CountType(lexer[1].tokens, "INDENT")
                   /\ CountType(lexer[1].tokens, "EOF") = 1
                   /\ Top(lexer[1].tokens).type = "EOF")
    /\ [][(phase = "lex" /\ lexer[1].state = "tokenizing")
          => TokenizeStepContract(lexer[1], lexer'[1])]_vars

\* An accepted source in which one narrower line closed two levels at once.
C16_TwoLevelsClosed ==
    /\ phase = "lex"
    /\ lexer[1].state = "done"
    /\ \E i \in 1..(Len(lexer[1].tokens) - 2) :
           /\ lexer[1].tokens[i].type = "DEDENT"
           /\ lexer[1].tokens[i + 1].type = "DEDENT"
           /\ lexer[1].tokens[i + 2].type = "IDENTIFIER"

-----------------------------------------------------------------------------
\* C17

\* The token list holds a while statement with a brace block.
HasBraceBlock(tokens) ==
    \E i \in 1..(Len(tokens) - 2) :
        /\ tokens[i].type = "WHILE"
        /\ tokens[i + 2].type = "LBRACE"

\* The token list holds a while statement with an indentation block.
HasIndentationBlock(tokens) ==
    \E i \in 1..(Len(tokens) - 4) :
        /\ tokens[i].type = "WHILE"
        /\ tokens[i + 2].type = "COLON"
        /\ tokens[i + 3].type = "NEWLINE"
        /\ tokens[i + 4].type = "INDENT"

\* C17: a compound statement is accepted by the parser with a brace block
\* and with an indentation block: parse returns a program that holds it.
C17_BothBlockFormsAccepted ==
    (/\ phase = "lex"
     /\ program # None
     /\ lexer[1].tokens[1].type = "WHILE"
     /\ HasBraceBlock(lexer[1].tokens) \/ HasIndentationBlock(lexer[1].tokens))
    => /\ program[1].raised = "none"
       /\ program[1].statements # <<>>


-----------------------------------------------------------------------------
\* C18

\* C18: the process of a run that ended in an uncaught runtime error exits
\* with status 1, and the process of a run that reached HALT exits with 0.
C18_ExitStatus ==
    (phase = "run" /\ exit_status # None)
    => /\ status = "error" => exit_status = Some(1)
       /\ status = "halted" => exit_status = Some(0)

-----------------------------------------------------------------------------
\* C19

\* A handler with a catch block is on the exception stack.
HandlerActive ==
    \E i \in 1..Len(exception_stack) : exception_stack[i].catch_pc # -1

\* C19: an instruction that raises a runtime error while a handler with a
\* catch block is active does not stop the VM: control resumes at the catch
\* block of the innermost such handler.
C19_ErrorReachesHandler ==
    [][(/\ AquaRunning
        /\ Instr.opcode # THROW
        /\ HandlerActive)
       => status' # "error"]_vars


-----------------------------------------------------------------------------
\* C20

\* The first four bytes are not b'AQUA', or the little-endian 16-bit number
\* after them is not 1.
BadHeader(b) ==
    \/ <<b[1], b[2], b[3], b[4]>> # <<65, 81, 85, 65>>
    \/ b[5] + 256 * b[6] # 1

\* What load_bytecode and everything after it may not touch.
LoadedState ==
    <<constants, global_vars, globals, functions, instructions, stack, pc>>

\* C20: load_bytecode on a blob with a bad header raises a load error and
\* leaves the constants, the global names, the globals, the functions, the
\* main instructions, the operand stack and the pc as they were; nothing is
\* executed afterwards.
C20_BadHeaderLoadsNothing ==
    /\ [][(phase = "serialized" /\ BadHeader(blob'))
          => /\ phase' = "load_error"
             /\ status' = "error"
             /\ UNCHANGED LoadedState]_vars
    /\ [][phase = "load_error" => UNCHANGED <<phase, LoadedState>>]_vars

\* A blob of version 257 was refused by OptimizedAquaVM and the process has
\* ended.
C20_VersionRefused ==
    /\ phase = "load_error"
    /\ vmkind = "opt"
    /\ blob # <<>>
    /\ <<blob[5], blob[6]>> = <<1, 1>>
    /\ instructions = <<>>
    /\ exit_status = Some(1)


-----------------------------------------------------------------------------
\* C21

\* The heaps of the other runs of the same blob up to this point: the same
\* objects, at the addresses another process could have given them.
OtherRuns(h) ==
    {[i \in 1..Len(h) |-> [h[i] EXCEPT !.address = base[i] \o ToString(i)]] :
        base \in [1..Len(h) -> AddressBases]}

\* C21: the VM is deterministic: the line a print call emits is the line
\* every other run of the same blob emits at that step.
C21_SameOutput ==
    [][(OptFetch(Opt_CALL) /\ output' # output)
       => \A h \in OtherRuns(heap) :
              output' = Append(output, JoinStrIn(h, LastN(stack, Operand)))]_vars


-----------------------------------------------------------------------------
(* C22: the stack effect of an expression's code.                            *)

\* The top-level statements of program p that assign an expression to a name.
TopAssignments(p) ==
    {k \in 1..Len(Programs[p]) : Programs[p][k].k = "Assignment"}

\* The main-code position of the store that follows the value code of
\* top-level statement k: the last instruction compiled for statements 1..k.
ValueEnd(p, k) ==
    Len(CompileBody(CodeGenerator, SubSeq(Programs[p], 1, k)).instructions) - 1

\* Main code is about to execute the store of top-level assignment k.
AtValueEnd(k) ==
    /\ phase = "run"
    /\ status = "running"
    /\ call_stack = <<>>
    /\ pc = ValueEnd(prog, k)

\* C22: the code of an expression leaves the operand stack exactly one
\* deeper.  A top-level statement starts on the empty stack, so when the
\* store after the value code of a top-level assignment is about to execute,
\* the stack holds exactly the value.
C22_ExpressionPushesOne ==
    \A k \in TopAssignments(prog) : AtValueEnd(k) => Len(stack) = 1


-----------------------------------------------------------------------------
(* C23: the token kinds of the reserved words.                               *)

\* The reserved words of test_keywords and the kind each is expected to have.
ExpectedKind ==
    [w \in {"def", "if", "else", "for", "while", "return", "True", "False",
            "None", "true", "false"} |->
        CASE w = "def" -> "DEF"
          [] w = "if" -> "IF"
          [] w = "else" -> "ELSE"
          [] w = "for" -> "FOR"
          [] w = "while" -> "WHILE"
          [] w = "return" -> "RETURN"
          [] w \in {"True", "true"} -> "TRUE"
          [] w \in {"False", "false"} -> "FALSE"
          [] w = "None" -> "NONE"]

\* The tokens that read_identifier produced: a word outside quotes and comments.
IsWordToken(tok) == tok.type \notin {"STRING", "COMMENT", "F_STRING", "NUMBER"}

\* C23: every reserved word lexes to its own keyword kind, never IDENTIFIER.
C23_ReservedWordKinds ==
    \A i \in 1..Len(lexer[1].tokens) :
        (IsWordToken(lexer[1].tokens[i])
         /\ lexer[1].tokens[i].value \in DOMAIN ExpectedKind)
        => lexer[1].tokens[i].type = ExpectedKind[lexer[1].tokens[i].value]


-----------------------------------------------------------------------------
(* C24: the steps of a for-in loop.                                          *)

\* FOR_ITER is the next instruction of the running VM.
ForIterFetch ==
    /\ phase = "run"
    /\ status = "running"
    /\ CurrentPc < Len(CurrentInstructions)
    /\ Instr.opcode = FOR_ITER

\* The iterator states of the two VMs: the sequence, the cursor and the
\* length recorded at GET_ITER.
IsIterator(v) ==
    IF vmkind = "aqua" THEN v.t = "iter"
    ELSE v.t = "list" /\ Len(v.l) = 3 /\ v.l[1].t \in {"list", "str"}
Iterated(v) == IF v.t = "iter" THEN v.obj ELSE v.l[1]
Cursor(v) == IF v.t = "iter" THEN v.idx ELSE v.l[2].n
Recorded(v) == IF v.t = "iter" THEN v.length ELSE v.l[3].n

\* Element number i (from 0) of a list or a string, key number i of a dict.
ElementAt(obj, i) ==
    IF obj.t = "list" THEN obj.l[i + 1]
    ELSE IF obj.t = "dict" THEN DictKeys(obj.d)[i + 1]
    ELSE StrV(SubSeq(obj.s, i + 1, i + 1))

\* FOR_ITER pushed element number Cursor, moved the cursor one on and went on
\* with the next instruction (the store of the loop variable).
BindsNextElement(it) ==
    /\ Len(stack') = Len(stack) + 1
    /\ Top(stack') = ElementAt(Iterated(it), Cursor(it))
    /\ IsIterator(stack'[Len(stack)])
    /\ Cursor(stack'[Len(stack)]) = Cursor(it) + 1
    /\ Recorded(stack'[Len(stack)]) = Recorded(it)
    /\ CurrentPc' = CurrentPc + 1
    /\ status' = "running"

\* FOR_ITER popped the iterator and jumped to its operand, the first
\* instruction after the loop.
LeavesLoop ==
    /\ stack' = Pop(stack)
    /\ CurrentPc' = Operand
    /\ status' = "running"

\* C24: every time a for-in loop comes back to its FOR_ITER the iterator of
\* the loop is on top of the stack with its cursor within the recorded
\* length n; while the cursor is below n the step binds the next element in
\* order, and at n it pops the iterator and continues after the loop: the
\* body runs once for each of the elements 0..n-1.
C24_ForInSteps ==
    [][ForIterFetch
       => /\ stack # <<>>
          /\ IsIterator(Top(stack))
          /\ Cursor(Top(stack)) <= Recorded(Top(stack))
          /\ IF Cursor(Top(stack)) < Recorded(Top(stack))
             THEN BindsNextElement(Top(stack))
             ELSE LeavesLoop]_vars


-----------------------------------------------------------------------------
(* C25: every call returns.                                                  *)

\* The pc of the running frame is past the last instruction of its function.
FrameRanOff ==
    /\ phase = "run"
    /\ status \notin {"error", "halted"}
    /\ call_stack # <<>>
    /\ CurrentPc >= Len(CurrentInstructions)

\* C25: no path moves the pc of a frame past the last instruction of its
\* function without returning: a frame is past its last instruction only
\* where run() answers that by returning nil to the caller (the automatic
\* return of OptimizedAquaVM.run).
C25_FrameReturns == FrameRanOff => vmkind = "opt"


-----------------------------------------------------------------------------
(* C26: break and continue.                                                  *)

\* The placeholder operand that compile_statement gives the jump of a break
\* or a continue.
Placeholder == Some(0 - 1)

\* No jump of the code keeps the placeholder operand.
Resolved(code) ==
    \A i \in 1..Len(code) : code[i].opcode = JUMP => code[i].operand # Placeholder

\* C26: once the loops of a program are compiled, no break or continue jump
\* keeps a placeholder operand, in main code and in every function.
C26_JumpsResolved ==
    phase # "compile"
    => /\ Resolved(gen.instructions)
       /\ \A f \in 1..Len(gen.functions) : Resolved(gen.functions[f][2].instructions)


-----------------------------------------------------------------------------
(* C27, C28: the switch statement.                                           *)

\* The top-level switch statements of program p.
TopSwitches(p) ==
    {k \in 1..Len(Programs[p]) : Programs[p][k].k = "SwitchStatement"}

\* The global variable name is loaded and holds v.
GlobalHolds(name, v) ==
    /\ DictHas(global_vars, name)
    /\ globals[DictGet(global_vars, name) + 1] = v

\* The bodies of the switch statements of the model are one assignment of a
\* number to a name: the body has executed when the name holds the number.
Ran(body) == GlobalHolds(body[1].target, IntV(body[1].value.value))

\* The scrutinee of the switch statements of the model is a global name.
Scrutinee(sw) == globals[DictGet(global_vars, sw.expression.name) + 1]
Matches(sw, c) == PyEq(Scrutinee(sw), IntV(sw.cases[c].value[1].value))
FirstMatch(sw, c) == Matches(sw, c) /\ \A j \in 1..(c - 1) : ~Matches(sw, j)

\* What the claim says of one switch statement that has completed.
Selected(sw) ==
    /\ \A c \in 1..Len(sw.cases) : Ran(sw.cases[c].body) <=> FirstMatch(sw, c)
    /\ sw.default_case # None
       => (Ran(sw.default_case[1]) <=> \A c \in 1..Len(sw.cases) : ~Matches(sw, c))

\* C27: of a switch statement exactly the body of the first case equal to
\* the scrutinee executes, and the default body exactly when no case is
\* equal: when the program has halted, the bodies that have executed are
\* those.
C27_SwitchSelects ==
    (phase = "run" /\ status = "halted")
    => \A k \in TopSwitches(prog) : Selected(Programs[prog][k])


\* The main-code position of the first instruction after top-level
\* statement k of program p.
StatementEnd(p, k) ==
    Len(CompileBody(CodeGenerator, SubSeq(Programs[p], 1, k)).instructions)

\* Main code has completed top-level statement k.
AfterStatement(k) ==
    /\ phase = "run"
    /\ status = "running"
    /\ call_stack = <<>>
    /\ pc = StatementEnd(prog, k)

\* C28: when a switch statement has completed, the operand stack is as deep
\* as before it, the scrutinee removed: after a top-level switch statement,
\* which starts on the empty stack, the stack is empty.
C28_SwitchKeepsDepth ==
    \A k \in TopSwitches(prog) : AfterStatement(k) => stack = <<>>


-----------------------------------------------------------------------------
(* C29: catch bodies run only for an exception of their own try body.       *)

RECURSIVE TryStatements(_), TryStatementsOfClauses(_)

\* The try statements among stmts and inside their try, catch and finally
\* bodies.
TryStatements(stmts) ==
    IF stmts = <<>> THEN {}
    ELSE IF Head(stmts).k # "TryStatement" THEN TryStatements(Tail(stmts))
    ELSE {Head(stmts)}
         \cup TryStatements(Head(stmts).try_body)
         \cup TryStatementsOfClauses(Head(stmts).catch_clauses)
         \cup TryStatements(Head(stmts).finally_body)
         \cup TryStatements(Tail(stmts))

TryStatementsOfClauses(clauses) ==
    IF clauses = <<>> THEN {}
    ELSE TryStatements(Head(clauses).body) \cup TryStatementsOfClauses(Tail(clauses))

\* A body of assignments of numbers to names: it completes without throwing.
CannotThrow(body) ==
    \A i \in 1..Len(body) :
        body[i].k = "Assignment" /\ body[i].value.k = "NumberLiteral"

\* A statement of the catch body has executed: the name it assigns holds the
\* number it assigns.
CatchBodyRan(body) ==
    \E i \in 1..Len(body) :
        /\ body[i].k = "Assignment"
        /\ GlobalHolds(body[i].target, IntV(body[i].value.value))

\* C29: when the try body of a try statement completes without throwing,
\* all its catch blocks are skipped: no statement of a catch body of a try
\* statement whose try body cannot throw ever executes, with any number of
\* catch clauses and also inside a catch block of another try statement.
C29_CatchNeedsOwnThrow ==
    phase = "run"
    => \A t \in TryStatements(Programs[prog]) :
           CannotThrow(t.try_body)
           => \A c \in 1..Len(t.catch_clauses) : ~CatchBodyRan(t.catch_clauses[c].body)


-----------------------------------------------------------------------------
(* C30: if / elif / else.                                                    *)

\* The top-level if statements of program p.
TopIfs(p) == {k \in 1..Len(Programs[p]) : Programs[p][k].k = "IfStatement"}

\* The conditions and the bodies of the arms of an if statement, in source
\* order: the if arm, then the elif arms.
ArmConditions(s) ==
    <<s.condition>> \o [i \in 1..Len(s.elif_clauses) |-> s.elif_clauses[i].condition]
ArmBodies(s) ==
    <<s.then_body>> \o [i \in 1..Len(s.elif_clauses) |-> s.elif_clauses[i].body]

\* The conditions of the model are a global name, a call of print with one
\* text (it prints the text and its value is nil), or the negation of one.
RECURSIVE ConditionValue(_), ConditionPrints(_)
ConditionValue(e) ==
    CASE e.k = "Identifier" -> globals[DictGet(global_vars, e.name) + 1]
      [] e.k = "FunctionCall" -> NilV
      [] e.k = "UnaryOperation" -> BoolV(~Truthy(ConditionValue(e.operand)))
ConditionPrints(e) ==
    CASE e.k = "Identifier" -> <<>>
      [] e.k = "FunctionCall" -> <<e.arguments[1].value>>
      [] e.k = "UnaryOperation" -> ConditionPrints(e.operand)

\* The first arm whose condition is truthy, 0 when all are falsy.
ArmTrue(p, s, i) == Truthy(ConditionValue(ArmConditions(s)[i]))
ArmTaken(p, s) ==
    IF \E i \in 1..Len(ArmConditions(s)) : ArmTrue(p, s, i)
    THEN CHOOSE i \in 1..Len(ArmConditions(s)) :
             ArmTrue(p, s, i) /\ \A j \in 1..(i - 1) : ~ArmTrue(p, s, j)
    ELSE 0

\* What the conditions 1..n of the statement print, in order.
RECURSIVE PrintsUpTo(_, _, _)
PrintsUpTo(p, s, n) ==
    IF n = 0 THEN <<>>
    ELSE PrintsUpTo(p, s, n - 1) \o ConditionPrints(ArmConditions(s)[n])

\* The conditions are evaluated in source order up to the arm taken, and all
\* of them when no arm is taken.
IfPrints(p, s) ==
    PrintsUpTo(p, s, IF ArmTaken(p, s) = 0 THEN Len(ArmConditions(s))
                     ELSE ArmTaken(p, s))

\* What the top-level if statements among statements 1..k of p print.
RECURSIVE ProgramPrints(_, _)
ProgramPrints(p, k) ==
    IF k = 0 THEN <<>>
    ELSE ProgramPrints(p, k - 1)
         \o (IF Programs[p][k].k = "IfStatement" THEN IfPrints(p, Programs[p][k])
             ELSE <<>>)

\* Exactly the arm taken has executed, and the else body exactly when no arm
\* was taken.
ArmSelected(p, s) ==
    /\ \A i \in 1..Len(ArmBodies(s)) : Ran(ArmBodies(s)[i]) <=> i = ArmTaken(p, s)
    /\ s.else_body # <<>> => (Ran(s.else_body) <=> ArmTaken(p, s) = 0)

\* The assignment that follows statement k, if one does, has executed.
Continued(p, k) ==
    (k < Len(Programs[p]) /\ Programs[p][k + 1].k = "Assignment")
    => Ran(<<Programs[p][k + 1]>>)

\* C30: the conditions of an if / elif / else statement are evaluated in
\* source order until the first truthy one, exactly that arm executes, the
\* else body executes exactly when all conditions are falsy, no condition is
\* evaluated after an arm is taken, and control continues after the whole
\* statement: when a program with top-level if statements has halted, the
\* conditions evaluated (seen by what they print), the bodies executed and
\* the statement after each are those.
C30_IfSelectsFirstTruthy ==
    (phase = "run" /\ status = "halted" /\ TopIfs(prog) # {})
    => /\ output = ProgramPrints(prog, Len(Programs[prog]))
       /\ \A k \in TopIfs(prog) :
              ArmSelected(prog, Programs[prog][k]) /\ Continued(prog, k)

\* A program with an elif arm taken before a later truthy elif has halted.
C30_ElifTaken ==
    /\ phase = "run" /\ status = "halted"
    /\ prog = 45
    /\ output = <<"p", "q">>
    /\ GlobalHolds("b", IntV(1))
    /\ GlobalHolds("z", IntV(1))

-----------------------------------------------------------------------------
(* C31: what BUILD_DICT leaves on the stack.                                 *)

\* BUILD_DICT is the next instruction of the running VM, with its 2n operands
\* on the stack.
BuildDictFetch ==
    /\ phase = "run"
    /\ status = "running"
    /\ CurrentPc < Len(CurrentInstructions)
    /\ Instr.opcode = BUILD_DICT
    /\ Len(stack) >= 2 * Operand

RECURSIVE EmittedPairs(_, _)
\* The dict of the items <<k1, v1, ..., kn, vn>> with the pairs entered in
\* the order they were emitted, the first pair first.
EmittedPairs(items, pairs) ==
    IF items = <<>> THEN pairs
    ELSE EmittedPairs(SubSeq(items, 3, Len(items)), DictSet(pairs, items[1], items[2]))

\* C31: BUILD_DICT n takes exactly 2n items off the operand stack and pushes
\* one dict that holds the n pairs with the keys in the order the pairs were
\* emitted, the first pair first.
C31_BuildDictOrder ==
    [][BuildDictFetch =>
          stack' = Append(PopN(stack, 2 * Operand),
                          DictV(EmittedPairs(LastN(stack, 2 * Operand), <<>>)))]_vars

-----------------------------------------------------------------------------
(* C32: GET_ITER on a value that is no ordered sequence.                     *)

\* GET_ITER is the next instruction of the running VM and the value on top of
\* the stack is not a list or a string (the programs build no tuple).
GetIterOnOther ==
    /\ phase = "run"
    /\ status = "running"
    /\ CurrentPc < Len(CurrentInstructions)
    /\ Instr.opcode = GET_ITER
    /\ stack # <<>>
    /\ Top(stack).t \notin {"list", "str"}

\* C32: GET_ITER on a value that is not a list, a tuple or a string (a dict,
\* a number, nil, an instance) raises an error at GET_ITER itself and pushes
\* no iterator state, so that the for-in never reaches its FOR_ITER.
C32_GetIterRejects ==
    [][GetIterOnOther => status' = "error" /\ stack' = Pop(stack)]_vars

-----------------------------------------------------------------------------
(* C33: the lexemes of the NUMBER tokens.                                    *)

\* The places of the text where the character c stands.
PlacesOf(text, c) == {i \in 1..Len(text) : SubSeq(text, i, i) = c}

\* One or more digits, with at most one "." among them and nothing else.
WellFormedNumeral(text) ==
    /\ \A i \in 1..Len(text) : SubSeq(text, i, i) \in isdigit \cup {"."}
    /\ \E i \in 1..Len(text) : SubSeq(text, i, i) \in isdigit
    /\ Cardinality(PlacesOf(text, ".")) <= 1

\* C33: every NUMBER token the lexer emits has a lexeme of one or more digits
\* with at most one "." in it, so that the parser's choice between int() and
\* float() always gets a well-formed numeral.
C33_NumberLexemes ==
    \A i \in 1..Len(lexer[1].tokens) :
        lexer[1].tokens[i].type = "NUMBER" =>
            WellFormedNumeral(lexer[1].tokens[i].value)

-----------------------------------------------------------------------------
(* C34: literals that are not closed.                                        *)

\* The lexer stands at the opening of a string or an f-string literal.
AtLiteral ==
    /\ InLine
    /\ current_char(lexer[1]) \notin Blank \cup {"#"}
    /\ TokenKind(lexer[1]) \in {"string", "f_string"}

\* Where the scan for the closing quote of that literal stops.
LiteralScanEnd(lx) ==
    IF TokenKind(lx) = "string"
    THEN StringBody(lx.source, lx.position + 1, current_char(lx), "").position
    ELSE FStringBody(lx.source, lx.position + 2, peek_char(lx), <<>>, "").position

\* The source ended before the closing quote of the literal.
QuoteMissing(lx) == LiteralScanEnd(lx) >= Len(lx.source)

RECURSIVE BraceOpen(_, _, _)
\* Some "{" of the f-string body from pos on has no matching "}".
BraceOpen(source, pos, quote_char) ==
    IF pos >= Len(source) \/ source[pos + 1] = quote_char THEN FALSE
    ELSE IF source[pos + 1] = "\\" THEN BraceOpen(source, pos + 2, quote_char)
    ELSE IF source[pos + 1] = "{"
    THEN \/ FStringExpression(source, pos + 1, 1, "").brace_count > 0
         \/ BraceOpen(source, FStringExpression(source, pos + 1, 1, "").position,
                      quote_char)
    ELSE BraceOpen(source, pos + 1, quote_char)

BraceMissing(lx) ==
    /\ TokenKind(lx) = "f_string"
    /\ BraceOpen(lx.source, lx.position + 2, peek_char(lx))

\* C34: for a string or f-string literal whose closing quote is missing
\* before the end of the input, and for an f-string in which a "{" has no
\* matching "}", tokenize raises a lex error and returns no token list.
C34_UnclosedLiteralRaises ==
    [][(AtLiteral /\ (QuoteMissing(lexer[1]) \/ BraceMissing(lexer[1])))
          => lexer'[1].state = "SyntaxError"]_vars

-----------------------------------------------------------------------------
(* C40: how tokenize ends.                                                   *)

\* tokenize returned: the token list ends in EOF.
ReturnedTokens ==
    /\ lexer[1].state = "done"
    /\ lexer[1].tokens # <<>>
    /\ Top(lexer[1].tokens).type = "EOF"

\* tokenize raised the lex error for the character it stands at, which starts
\* no token.
RaisedLexError ==
    /\ lexer[1].state = "SyntaxError"
    /\ lexer[1].position < Len(lexer[1].source)
    /\ TokenKind(lexer[1]) = "unknown"

\* C40: for every source tokenize either returns a token list that ends in
\* EOF or raises the lex error for an unrecognized character; it fails in no
\* other way, wherever an identifier, a number, a string or a comment ends,
\* the end of the input included.
C40_TokenizeTotal ==
    phase = "lex" =>
        \/ lexer[1].state = "tokenizing"
        \/ ReturnedTokens
        \/ RaisedLexError

-----------------------------------------------------------------------------
(* C35: the operand of CALL_METHOD. The pure functions that pack and unpack  *)
(* it are run in a specification of their own: a generator whose pool holds  *)
(* some number of constants compiles one method call, and the operand it     *)
(* emitted is decoded as _op_call_method decodes it.                         *)

\* The most arguments a compiled method call is given.
MaxArgs == 8

\* How many constants the pool holds when the method call is compiled.
PoolSizes == {0, 1, 2, 65535, 65536, 65537}

\* The pool after size distinct Number literals have been compiled, none of
\* them an argument of the method call.
FilledPool(size) == [k \in 1..size |-> IntV(MaxArgs + k)] \o <<>>

\* The expression o.m(1, ..., n).
MethodCallOf(n) == CallMethod(Id("o"), "m", [k \in 1..n |-> Num(k)])

CallMethodInit ==
    /\ prog = 1
    /\ \E size \in PoolSizes :
          gen = [CodeGenerator EXCEPT !.constants = FilledPool(size)]
    /\ bytecode = <<>>
    /\ vmkind = "none"
    /\ constants = <<>>
    /\ global_vars = <<>>
    /\ globals = <<>>
    /\ functions = <<>>
    /\ instructions = <<>>
    /\ classes = <<>>
    /\ stack = <<>>
    /\ call_stack = <<>>
    /\ pc = 0
    /\ exception_stack = <<>>
    /\ current_exception = None
    /\ heap = <<>>
    /\ output = <<>>
    /\ status = "idle"
    /\ error = None
    /\ blob = <<>>
    /\ exit_status = None
    /\ phase = "call_method"
    /\ call = None
    /\ lexer = None
    /\ program = None

\* compile_expression on a FunctionCall whose function is an AttributeAccess
CompileMethodCall ==
    /\ phase = "call_method"
    /\ call = None
    /\ \E n \in 0..MaxArgs :
          /\ gen' = compile_expression(gen, MethodCallOf(n))
          /\ call' = Some([arguments |-> n, decoded |-> FALSE])
    /\ UNCHANGED <<prog, bytecode, phase, vmkind, constants, global_vars,
                   globals, functions, instructions, classes, stack, call_stack,
                   pc, exception_stack, current_exception, heap, output, status,
                   error, lexer, program, blob, exit_status>>

\* The CALL_METHOD instruction the generator emitted last.
EmittedCallMethod == gen.instructions[Len(gen.instructions)]

\* The first lines of _op_call_method on that instruction, the pool being the
\* constants the VM was loaded with.
DecodeMethodCall ==
    /\ phase = "call_method"
    /\ call # None
    /\ ~call[1].decoded
    /\ EmittedCallMethod.opcode = CALL_METHOD
    /\ LET operand == EmittedCallMethod.operand[1] IN
          call' = Some([arguments |-> call[1].arguments,
                        decoded |-> TRUE,
                        operand |-> operand,
                        arg_count |-> ArgCount(operand),
                        method_name |-> gen.constants[MethodNameIndex(operand) + 1]])
    /\ UNCHANGED <<prog, gen, bytecode, phase, vmkind, constants, global_vars,
                   globals, functions, instructions, classes, stack, call_stack,
                   pc, exception_stack, current_exception, heap, output, status,
                   error, lexer, program, blob, exit_status>>

CallMethodNext == CompileMethodCall \/ DecodeMethodCall

CallMethodSpec == CallMethodInit /\ [][CallMethodNext]_vars

\* The operand of a method call has been decoded.
MethodCallDecoded == phase = "call_method" /\ call # None /\ call[1].decoded

\* C35: decoding the operand of the CALL_METHOD the generator emitted, as the
\* VM does (operand >> 16 and operand & 0xFFFF), gives back the number of
\* arguments of the call and the pool entry that holds the method's name.
C35_CallMethodOperandDecodes ==
    MethodCallDecoded =>
        /\ call[1].arg_count = call[1].arguments
        /\ call[1].method_name = StrV("m")

-----------------------------------------------------------------------------
(* C36: the handler stack after a try statement.                             *)

\* The program's main code opens with a try statement.
OpensWithTry == Head(Programs[prog]).k = "TryStatement"

\* The position in the main code just behind the code of that statement.
BehindFirstStatement ==
    Len(compile_statement(CodeGenerator, Head(Programs[prog])).instructions)

\* AquaVM's main code has finished the try statement the program opens with:
\* no handler was on the stack just before its TRY_BEGIN at position 0.
\* The statement finishes on one of two paths: its body completes without
\* throwing, or its first clause catches whatever was thrown and the body of
\* that clause completes.
FinishesOnPath(stmt) ==
    \/ CannotThrow(stmt.try_body)
    \/ /\ stmt.catch_clauses # <<>>
       /\ Head(stmt.catch_clauses).exception_type = None
       /\ CannotThrow(Head(stmt.catch_clauses).body)

TryStatementFinished ==
    /\ phase = "run" /\ vmkind = "aqua" /\ status # "error"
    /\ OpensWithTry
    /\ FinishesOnPath(Head(Programs[prog]))
    /\ call_stack = <<>>
    /\ pc = BehindFirstStatement

\* C36: when AquaVM has finished a try statement (its body completed, or a
\* catch body completed), the handler stack is as deep as just before the
\* statement's TRY_BEGIN and no exception is current.
C36_HandlerStackRestored ==
    TryStatementFinished => exception_stack = <<>> /\ current_exception = None

-----------------------------------------------------------------------------
(* C37: the POP the generator emits, as the two VMs run it.                  *)

\* A VM is about to execute an emitted POP: the generator's opcode number for
\* POP, with no operand, on a stack that is not empty.
EmittedPopFetched ==
    /\ AquaFetch(POP) \/ OptFetch(POP)
    /\ Instr.operand = None
    /\ stack # <<>>

\* C37: the POP the generator emits removes the top of the operand stack,
\* whether AquaVM or OptimizedAquaVM executes it.
C37_EmittedPopPops ==
    [][EmittedPopFetched => stack' = Pop(stack)]_vars

-----------------------------------------------------------------------------
(* C38: opcodes without a handler.                                           *)

\* The VM that runs the program is at an instruction it has no handler for.
AtUnknownOpcode ==
    \/ AquaRunning /\ Instr.opcode \in AquaUnknown
    \/ OptRunning /\ Instr.opcode \in OptUnknown

\* C38: a VM running compiled code never stands at an instruction whose
\* opcode it has no handler for, so no run ends in an unknown-opcode error.
C38_EveryOpcodeHandled == ~AtUnknownOpcode

-----------------------------------------------------------------------------
(* C39: the value LOAD_CONST pushes for a literal.                           *)

LiteralKinds == {"NumberLiteral", "StringLiteral", "BooleanLiteral", "NoneLiteral"}

\* The program is a sequence of assignments of literals to names: statement i
\* is compiled to LOAD_CONST at position 2i - 2 and a store at 2i - 1.
OnlyLiteralAssignments ==
    \A i \in 1..Len(Programs[prog]) :
        /\ Programs[prog][i].k = "Assignment"
        /\ Programs[prog][i].value.k \in LiteralKinds

\* The value a literal denotes, with its type.
LiteralValue(expr) ==
    CASE expr.k = "NumberLiteral" -> IntV(expr.value)
      [] expr.k = "StringLiteral" -> StrV(expr.value)
      [] expr.k = "BooleanLiteral" -> BoolV(expr.value)
      [] expr.k = "NoneLiteral" -> NilV

\* A VM has just executed the LOAD_CONST of statement i.
LiteralLoaded(i) ==
    /\ phase = "run" /\ status = "running"
    /\ OnlyLiteralAssignments
    /\ call_stack = <<>>
    /\ pc = 2 * i - 1

\* C39: the LOAD_CONST emitted for a literal leaves on the stack the value
\* of the literal with the literal's type, whatever the pool held before.
C39_LiteralKeepsType ==
    \A i \in 1..Len(Programs[prog]) :
        LiteralLoaded(i) =>
            stack # <<>> /\ Top(stack) = LiteralValue(Programs[prog][i].value)

=============================================================================
